---- MODULE Spec2Model ----
(***************************************************************************)
(* Rational-function game: the function generator, the analyzer and the    *)
(* multiple-choice question builder of utils/function_generator.py         *)
(* (class RationalFunctionGenerator).                                      *)
(*                                                                         *)
(* Symbolic values.  Every polynomial the generator builds is a product    *)
(* of linear factors (x - a), a an integer in [-5, 5], times at most one   *)
(* monomial c*x^k.  SymPy keeps such a product factored and merges equal   *)
(* bases ((x-1)*(x-1) is (x-1)**2, x*(3*x) is 3*x**2), so a polynomial is  *)
(* the multiplicity of each root together with its leading coefficient.    *)
(* A hand-built function may also carry the factor x^2 + 1, which has no   *)
(* real root: quad counts it.                                              *)
(*                                                                         *)
(* Python values.  A Python int, None, str or list is a record             *)
(* [t, n, d, s, items]; a float is an IEEE 754 double, the record          *)
(* [t, sign, mant, shift, repr] of the value sign * mant / 2^shift.        *)
(***************************************************************************)
EXTENDS Integers, Sequences, FiniteSets, TLC

(***************************************************************************)
(* Program constants and the bounds of the model.                          *)
(***************************************************************************)
RootMin == -5
RootMax == 5
CoeffMin == -5
CoeffMax == 5
OffsetMin == -3
OffsetMax == 3

\* Random draws are enumerated from sub-ranges of the ranges the code draws from.
MaxDifficulty == 1
MaxRoot == 1
MaxCoeffDraw == 2
MaxWrong == 2
MaxClock == 32
MaxQuestions == 5
MaxStreak == 13
MaxPracticeEvents == 7
MaxRoomQuestions == 2
MaxAiPlayers == 1
MaxQuizTicks == 5
MaxGames == 2
MaxCalls == 3
MaxPastGames == 49
MaxGameRecords == 50

Min(a, b) == IF a < b THEN a ELSE b
Max(a, b) == IF a < b THEN b ELSE a
Abs(a) == IF a < 0 THEN 0 - a ELSE a

Roots == RootMin..RootMax

RECURSIVE Gcd(_, _)
Gcd(a, b) == IF b = 0 THEN a ELSE Gcd(b, a % b)

RECURSIVE Pow(_, _)
Pow(b, e) == IF e = 0 THEN 1 ELSE b * Pow(b, e - 1)

(***************************************************************************)
(* Natural numbers of any size, for the 53-bit mantissa of a float: a      *)
(* sequence of limbs in base 2^13, the least significant first, with no    *)
(* zero limb at the end (0 is the empty sequence).                         *)
(***************************************************************************)
LimbBits == 13
LimbBase == 2^LimbBits

TwoTo(e) == 2^e

MaxOf(S) == CHOOSE m \in S : \A j \in S : j <= m
MinOf(S) == CHOOSE m \in S : \A j \in S : m <= j

BigLimb(a, i) == IF 1 <= i /\ i <= Len(a) THEN a[i] ELSE 0

\* the limbs without the zero limbs at the end
BigTrim(a) == SubSeq(a, 1, MaxOf({0} \cup {i \in 1..Len(a) : a[i] # 0}))

\* a natural number below 2^31
BigOf(n) == BigTrim(<<n % LimbBase, (n \div LimbBase) % LimbBase, n \div (LimbBase * LimbBase)>>)

\* -1 or 1 as a < b or a > b at limb i, the highest limb where they differ
BigCmpAt(a, b, i) == IF BigLimb(a, i) < BigLimb(b, i) THEN -1 ELSE 1

\* -1, 0 or 1 as a < b, a = b or a > b
BigCmp(a, b) ==
    IF a = b THEN 0
    ELSE BigCmpAt(a, b, MaxOf({i \in 1..Max(Len(a), Len(b)) : BigLimb(a, i) # BigLimb(b, i)}))

\* the number whose limbs are sum, each limb below 2 * LimbBase: limb i takes
\* a carry when a limb under it overflows and every limb between them is full
BigCarry(sum) ==
    BigTrim([i \in 1..Len(sum) |->
               (sum[i] + (IF \E j \in 1..(i - 1) :
                               /\ sum[j] >= LimbBase
                               /\ \A m \in (j + 1)..(i - 1) : sum[m] = LimbBase - 1
                          THEN 1 ELSE 0)) % LimbBase])

\* a + b
BigAdd(a, b) ==
    IF a = <<>> THEN b
    ELSE IF b = <<>> THEN a
    ELSE BigCarry([i \in 1..(Max(Len(a), Len(b)) + 1) |-> BigLimb(a, i) + BigLimb(b, i)])

\* the number whose limbs are diff, each limb above -LimbBase: limb i gives a
\* borrow when a limb under it falls short and every limb between them is
\* empty
BigBorrow(diff) ==
    BigTrim([i \in 1..Len(diff) |->
               (diff[i] + LimbBase
                - (IF \E j \in 1..(i - 1) :
                        /\ diff[j] < 0
                        /\ \A m \in (j + 1)..(i - 1) : diff[m] = 0
                   THEN 1 ELSE 0)) % LimbBase])

\* a - b for a >= b
BigSub(a, b) ==
    IF b = <<>> THEN a
    ELSE BigBorrow([i \in 1..Len(a) |-> a[i] - BigLimb(b, i)])

\* the distance between a and b
BigGap(a, b) == IF BigCmp(a, b) < 0 THEN BigSub(b, a) ELSE BigSub(a, b)

\* a * c for 0 <= c < 2^13: the low limbs of the products and, one place up,
\* their high limbs
BigMul(a, c) ==
    IF a = <<>> THEN <<>>
    ELSE BigAdd(BigTrim([i \in 1..Len(a) |-> (a[i] * c) % LimbBase]),
                BigTrim([i \in 1..(Len(a) + 1) |->
                           IF i = 1 THEN 0 ELSE (a[i - 1] * c) \div LimbBase]))

\* a * 2^s
BigShl(a, s) ==
    IF a = <<>> THEN <<>>
    ELSE BigTrim([i \in 1..(Len(a) + s \div LimbBits + 1) |->
                    ((BigLimb(a, i - s \div LimbBits) * TwoTo(s % LimbBits)) % LimbBase)
                    + ((BigLimb(a, i - s \div LimbBits - 1) * TwoTo(s % LimbBits))
                       \div LimbBase)])

\* floor(a / 2^s)
BigShr(a, s) ==
    IF a = <<>> THEN <<>>
    ELSE BigTrim([i \in 1..Max(Len(a) - s \div LimbBits, 0) |->
                    (BigLimb(a, i + s \div LimbBits) \div TwoTo(s % LimbBits))
                    + (BigLimb(a, i + s \div LimbBits + 1) % TwoTo(s % LimbBits))
                      * TwoTo(LimbBits - (s % LimbBits))])

\* bit p of a, the lowest bit being bit 0
BigBit(a, p) == (BigLimb(a, p \div LimbBits + 1) \div TwoTo(p % LimbBits)) % 2

\* a mod 2^s = 0
BigDivides(a, s) ==
    /\ \A i \in 1..Min(Len(a), s \div LimbBits) : a[i] = 0
    /\ BigLimb(a, s \div LimbBits + 1) % TwoTo(s % LimbBits) = 0

BigIsOdd(a) == BigBit(a, 0) = 1

\* a / 2^s rounded to the nearest integer, a tie to the even one: the floor,
\* and one more when what is cut off is over a half, or is a half under an
\* odd floor
BigRoundShr(a, s) ==
    IF s = 0 \/ a = <<>> THEN a
    ELSE BigAdd(BigShr(a, s),
                IF BigBit(a, s - 1) = 1 /\ (~BigDivides(a, s - 1) \/ BigBit(a, s) = 1)
                THEN <<1>> ELSE <<>>)

\* the number of bits of a
BigBitLength(a) ==
    IF a = <<>> THEN 0
    ELSE LimbBits * (Len(a) - 1) + MinOf({e \in 1..LimbBits : a[Len(a)] < TwoTo(e)})

\* the number of zero bits at the low end of limb number low of a, the lowest
\* limb that is not zero, and of the limbs under it
BigLowZerosAt(a, low) ==
    LimbBits * (low - 1) + MinOf({e \in 0..(LimbBits - 1) : (a[low] \div TwoTo(e)) % 2 = 1})

\* the number of zero bits at the low end of a > 0
BigLowZeros(a) == BigLowZerosAt(a, MinOf({i \in 1..Len(a) : a[i] # 0}))

\* a * 5^k, 3125 = 5^5 a time
RECURSIVE BigTimesFive(_, _)
BigTimesFive(a, k) ==
    IF k = 0 \/ a = <<>> THEN a
    ELSE BigTimesFive(BigMul(a, <<1, 5, 25, 125, 625, 3125>>[Min(k, 5) + 1]), Max(k - 5, 0))

\* a * 10^k
BigTimesTen(a, k) == BigShl(BigTimesFive(a, k), k)

\* floor(a / c) and a mod c for 0 < c < 2^18, the limbs from i down
RECURSIVE BigDivFrom(_, _, _, _)
BigDivFrom(a, c, i, rem) ==
    IF i = 0 THEN [q |-> <<>>, r |-> rem]
    ELSE LET rest == BigDivFrom(a, c, i - 1, (rem * LimbBase + a[i]) % c)
         IN [q |-> Append(rest.q, (rem * LimbBase + a[i]) \div c), r |-> rest.r]

BigTrimQuotient(res) == [q |-> BigTrim(res.q), r |-> res.r]

BigDivMod(a, c) == BigTrimQuotient(BigDivFrom(a, c, Len(a), 0))

\* the decimal digits of n in a field of width w, zeros in front
RECURSIVE PadDigits(_, _)
PadDigits(n, w) == IF w = 0 THEN "" ELSE PadDigits(n \div 10, w - 1) \o ToString(n % 10)

\* the decimal digits of a, four a time from the low end: split is a cut in
\* front of the last four
RECURSIVE BigDigits(_)
RECURSIVE BigDigitsOf(_)
BigDigitsOf(split) ==
    IF split.q = <<>> THEN ToString(split.r)
    ELSE BigDigits(split.q) \o PadDigits(split.r, 4)

BigDigits(a) == BigDigitsOf(BigDivMod(a, 10000))

(***************************************************************************)
(* IEEE 754 doubles.  A float is sign * mant / 2^shift with mant a natural *)
(* number, in lowest terms (shift >= 0, mant odd when shift > 0), that     *)
(* fits in 53 bits once the zero bits at its low end are left out; 0.0 is  *)
(* sign 0, mant 0, shift 0.  The record of a float holds its repr as well, *)
(* the shortest decimal that reads back as it, worked out once when the    *)
(* float is made.                                                          *)
(***************************************************************************)
MantBits == 53

\* whether 10^e <= mant / 2^shift
AtLeastTenTo(mant, shift, e) ==
    BigCmp(IF e >= 0 THEN mant ELSE BigTimesTen(mant, 0 - e),
           BigShl(IF e >= 0 THEN BigTimesTen(<<1>>, e) ELSE <<1>>, shift)) >= 0

\* the greatest of guess - 1, guess and guess + 1 that is an exponent e with
\* 10^e <= mant / 2^shift
DecimalExponentNear(mant, shift, guess) ==
    MaxOf({e \in (guess - 1)..(guess + 1) : e = guess - 1 \/ AtLeastTenTo(mant, shift, e)})

\* floor(log10(mant / 2^shift)) for mant > 0: log10(2) lies between 0.30102
\* and 0.30103, which leaves three candidates around the binary exponent
DecimalExponent(mant, shift) ==
    DecimalExponentNear(mant, shift, ((BigBitLength(mant) - shift - 1) * 30103) \div 100000)

\* whether mant is a power of two: the float under it is half as far away as
\* the float over it
IsPowerOfTwo(mant) == BigLowZeros(mant) + 1 = BigBitLength(mant)

\* -1, 0 or 1 as gap / 10^k is less than, equal to or more than the way from
\* mant to the middle between it and the next float, down or up: half a unit
\* in the last of its 53 places, a quarter down from a power of two
HalfwayCmp(gap, k, mant, down) ==
    BigCmp(BigShl(gap, MantBits + 1 - BigBitLength(mant)
                       + (IF down /\ IsPowerOfTwo(mant) THEN 1 ELSE 0)),
           BigTimesTen(<<1>>, k))

\* a decimal at the middle c = 0 reads back as the float of even mantissa
RoundsTo(c, mant) == c < 0 \/ (c = 0 /\ (BigBitLength(mant) < MantBits \/ ~BigIsOdd(mant)))

\* whether theirs / (10^k * 2^shift) reads back as ours / (10^k * 2^shift),
\* ours being mant * 10^k
ReadsBackAs(ours, theirs, k, mant) ==
    RoundsTo(HalfwayCmp(BigGap(ours, theirs), k, mant, BigCmp(theirs, ours) < 0), mant)

\* whether the decimal digits / 10^k reads back as the float mant / 2^shift
ReadsBack(digits, k, mant, shift) ==
    ReadsBackAs(BigTimesTen(mant, k), BigShl(digits, shift), k, mant)

\* mant / 2^shift in units of 1 / 10^k, rounded to a whole number of them
Rounded(mant, shift, k) == BigRoundShr(BigTimesTen(mant, k), shift)

\* whether mant / 2^shift rounded to units of 1 / 10^k reads back
RoundsBack(mant, shift, k) == ReadsBack(Rounded(mant, shift, k), k, mant, shift)

\* the number of significant digits of the shortest decimal that reads back
\* as a double is at most 17, and 16 or 17 for most
ReprDigits == 17

\* the length to try between lo and hi: the two longest first
Probe(lo, hi) == IF hi > ReprDigits - 2 THEN hi - 1 ELSE (lo + hi) \div 2

\* the least n in lo..hi whose rounding to n significant digits reads back,
\* hi digits do (a rounding that reads back still does with a digit more)
RECURSIVE ShortestIn(_, _, _, _, _)
ShortestIn(mant, shift, exponent, lo, hi) ==
    IF lo >= hi THEN hi
    ELSE IF RoundsBack(mant, shift, Probe(lo, hi) - 1 - exponent)
    THEN ShortestIn(mant, shift, exponent, lo, Probe(lo, hi))
    ELSE ShortestIn(mant, shift, exponent, Probe(lo, hi) + 1, hi)

\* the number of significant digits of the shortest decimal that reads back
\* as mant / 2^shift, which has exponent + 1 digits in front of the point
ShortestLength(mant, shift, exponent) ==
    ShortestIn(mant, shift, exponent, Min(Max(1, exponent + 1), ReprDigits), ReprDigits)

RECURSIVE Zeros(_)
Zeros(n) == IF n <= 0 THEN "" ELSE "0" \o Zeros(n - 1)

\* a digit string without the zeros at its end
RECURSIVE StripZeros(_)
StripZeros(str) ==
    IF Len(str) > 0 /\ SubSeq(str, Len(str), Len(str)) = "0"
    THEN StripZeros(SubSeq(str, 1, Len(str) - 1))
    ELSE str

\* the digits str of a decimal and the place of its point in them, written
\* as repr writes a float: positional from 1e-4 on, with an exponent under it
Positional(str, point) ==
    LET frac == StripZeros(SubSeq(str, Max(point, 0) + 1, Len(str)))
        sci == StripZeros(SubSeq(str, 2, Len(str)))
    IN IF point < -3
       THEN SubSeq(str, 1, 1) \o (IF sci = "" THEN "" ELSE "." \o sci) \o "e-"
            \o (IF 1 - point < 10 THEN "0" ELSE "") \o ToString(1 - point)
       ELSE (IF point > 0 THEN SubSeq(str, 1, point) ELSE "0") \o "."
            \o (IF point < 0 THEN Zeros(0 - point) ELSE "")
            \o (IF frac = "" THEN "0" ELSE frac)

\* the decimal str / 10^k as repr writes it
Written(str, k) == Positional(str, Len(str) - k)

\* repr of mant / 2^shift rounded to units of 1 / 10^k
ReprAt(mant, shift, k) == Written(BigDigits(Rounded(mant, shift, k)), k)

\* repr of mant / 2^shift: its shortest rounding that reads back
ReprFrom(mant, shift, exponent) ==
    ReprAt(mant, shift, ShortestLength(mant, shift, exponent) - 1 - exponent)

\* repr of a positive float below 1e16
ReprPositive(mant, shift) == ReprFrom(mant, shift, DecimalExponent(mant, shift))

\* repr(float), below 1e16 in size: "2.0", "-0.5", "1.6666666666666667"
Repr(sign, mant, shift) ==
    IF mant = <<>> THEN "0.0"
    ELSE (IF sign < 0 THEN "-" ELSE "") \o ReprPositive(mant, shift)

\* the float sign * mant / 2^shift, mant and shift in lowest terms
Float(sign, mant, shift) ==
    [t |-> "float", sign |-> sign, mant |-> mant, shift |-> shift,
     repr |-> Repr(sign, mant, shift)]

\* 0.0
FloatZero == [t |-> "float", sign |-> 0, mant |-> <<>>, shift |-> 0, repr |-> "0.0"]

\* the float sign * kept / 2^shift for kept > 0 of at most 54 bits, of which
\* the low one is zero then (shift may be negative)
Lowest(sign, kept, shift) ==
    Float(sign,
          IF shift < 0 THEN BigShl(kept, 0 - shift)
          ELSE BigShr(kept, Min(BigLowZeros(kept), shift)),
          IF shift < 0 THEN 0 ELSE shift - Min(BigLowZeros(kept), shift))

\* the double nearest to sign * num / 2^shift, a tie to the even mantissa
\* (shift may be negative)
RoundToDouble(sign, num, shift) ==
    IF num = <<>> THEN FloatZero
    ELSE Lowest(sign, BigRoundShr(num, Max(BigBitLength(num) - MantBits, 0)),
                shift - Max(BigBitLength(num) - MantBits, 0))

\* the number of bits of a natural number below 2^31
RECURSIVE IntBits(_)
IntBits(n) == IF n = 0 THEN 0 ELSE 1 + IntBits(n \div 2)

\* floor(log2(a / b)) for a, b > 0, guess being it or one more
Log2Near(a, b, guess) ==
    IF a * 2^Max(0 - guess, 0) >= b * 2^Max(guess, 0) THEN guess ELSE guess - 1

Log2Floor(a, b) == Log2Near(a, b, IntBits(a) - IntBits(b))

\* the double nearest to sign * (scaled.q + scaled.r / b) / 2^shift for a
\* quotient scaled.q of 53 bits
QuotientToDouble(sign, scaled, b, shift) ==
    RoundToDouble(sign,
                  BigAdd(scaled.q,
                         IF 2 * scaled.r > b \/ (2 * scaled.r = b /\ BigIsOdd(scaled.q))
                         THEN <<1>> ELSE <<>>),
                  shift)

\* the double nearest to sign * a / b, shift making a * 2^shift / b a number
\* of 53 bits
ScaledToDouble(sign, a, b, shift) ==
    QuotientToDouble(sign, BigDivMod(BigShl(BigOf(a), shift), b), b, shift)

\* the double nearest to sign * a / b for a, b > 0
RatioToDouble(sign, a, b) == ScaledToDouble(sign, a, b, MantBits - 1 - Log2Floor(a, b))

\* float(Rational(p, q)), q # 0: the double nearest to p / q
PyFloat(p, q) ==
    IF p = 0 THEN FloatZero
    ELSE RatioToDouble(IF (p < 0) = (q < 0) THEN 1 ELSE -1,
                       Abs(p) \div Gcd(Abs(p), Abs(q)), Abs(q) \div Gcd(Abs(p), Abs(q)))

\* the double nearest to sa * a / 2^shift + sb * b / 2^shift, sa and sb 1 or -1
SignedSum(sa, a, sb, b, shift) ==
    RoundToDouble(IF sa = sb \/ BigCmp(a, b) > 0 THEN sa ELSE sb,
                  IF sa = sb THEN BigAdd(a, b) ELSE BigGap(a, b), shift)

\* v + k for a float v and an int k
FloatAddInt(v, k) ==
    IF k = 0 THEN v
    ELSE SignedSum(IF v.sign < 0 THEN -1 ELSE 1, v.mant, IF k < 0 THEN -1 ELSE 1,
                   BigShl(BigOf(Abs(k)), v.shift), v.shift)

(***************************************************************************)
(* Python values.                                                          *)
(***************************************************************************)
PyInt(v) == [t |-> "int", n |-> v, d |-> 1, s |-> "", items |-> <<>>]
PyNone == [t |-> "NoneType", n |-> 0, d |-> 1, s |-> "", items |-> <<>>]
PyStr(str) == [t |-> "str", n |-> 0, d |-> 1, s |-> str, items |-> <<>>]
PyList(seq) == [t |-> "list", n |-> 0, d |-> 1, s |-> "", items |-> seq]

\* an exception that left a call, by the name of its class
PyRaise(name) == [t |-> "raise", n |-> 0, d |-> 1, s |-> name, items |-> <<>>]

IsNumber(v) == v.t \in {"int", "float"}

\* Python's == on the values that occur: numbers compare by value whatever
\* their type (3 == 3.0), lists element by element, everything else by type
\* an int and a float compare by their exact values
IntEqFloat(n, v) ==
    /\ v.shift = 0
    /\ v.mant = BigOf(Abs(n))
    /\ v.sign = (IF n > 0 THEN 1 ELSE IF n < 0 THEN -1 ELSE 0)

PyEqNum(a, b) ==
    /\ IsNumber(a) /\ IsNumber(b)
    /\ IF a.t = "int" /\ b.t = "int" THEN a.n = b.n
       ELSE IF a.t = "int" THEN IntEqFloat(a.n, b)
       ELSE IF b.t = "int" THEN IntEqFloat(b.n, a)
       ELSE a = b

PyEq(a, b) ==
    \/ PyEqNum(a, b)
    \/ a.t = "NoneType" /\ b.t = "NoneType"
    \/ a.t = "str" /\ b.t = "str" /\ a.s = b.s
    \/ /\ a.t = "list" /\ b.t = "list"
       /\ Len(a.items) = Len(b.items)
       /\ \A i \in 1..Len(a.items) : PyEqNum(a.items[i], b.items[i])

\* x in seq, for a Python list held as a sequence
PyIn(x, seq) == \E i \in 1..Len(seq) : PyEq(seq[i], x)

(***************************************************************************)
(* Polynomials (sympy expressions built by _generate_polynomial).          *)
(***************************************************************************)
\* polynomial = 1
One == [mult |-> [a \in Roots |-> 0], lead |-> 1, quad |-> 0]

\* (mutant) the factor is the constant a, not x - a
MulLinearFactor_Constant(p, a) == [p EXCEPT !.lead = @ * a]

\* _generate_linear_factor followed by polynomial *= factor, for the draw a
MulLinearFactor(p, a) == [p EXCEPT !.mult[a] = @ + 1]

\* polynomial *= coeff * (self.x ** remaining_degree)
MulMonomial(p, coeff, k) ==
    [mult |-> [p.mult EXCEPT ![0] = @ + k], lead |-> p.lead * coeff, quad |-> p.quad]

\* denominator == 0: a sympy product is 0 only if a numeric factor is 0
IsZero(p) == p.lead = 0

Degree(p) ==
    LET RECURSIVE sum(_)
        sum(a) == IF a > RootMax THEN 0 ELSE p.mult[a] + sum(a + 1)
    IN sum(RootMin) + 2 * p.quad

RECURSIVE MulFactors(_, _)
MulFactors(p, as) ==
    IF as = <<>> THEN p ELSE MulFactors(MulLinearFactor(p, Head(as)), Tail(as))

\* (mutant) a zero draw is kept
Coefficient_KeepsZero(c) == c

\* coeff = random.randint(-5, 5); if coeff == 0: coeff = 1
Coefficient(c) == IF c = 0 THEN 1 ELSE c

\* _generate_polynomial for the draws degree, factors, as (one root per
\* factor) and c (the coefficient draw, used only when degree > factors)
GeneratePolynomial(degree, factors, as, c) ==
    LET polynomial == MulFactors(One, as)
        remaining_degree == degree - factors
    IN IF remaining_degree > 0
       THEN MulMonomial(polynomial, Coefficient(c), remaining_degree)
       ELSE polynomial

RootDraws == Max(RootMin, 0 - MaxRoot)..Min(RootMax, MaxRoot)
CoeffDraws == Max(CoeffMin, 0 - MaxCoeffDraw)..Min(CoeffMax, MaxCoeffDraw)

\* every polynomial _generate_polynomial(max_degree, max_factors) can return
\* when its root draws come from roots and its coefficient draw from coeffs
PolynomialOutcomes(max_degree, max_factors, roots, coeffs) ==
    UNION { UNION { { GeneratePolynomial(degree, factors, as, c) :
                        as \in [1..factors -> roots], c \in coeffs } :
                    factors \in 1..Min(max_factors, degree) } :
            degree \in 1..max_degree }

\* self.difficulty_configs, holes_prob in tenths (0.3 .. 0.7)
difficulty_configs ==
    [lvl \in 1..5 |->
        [max_degree |-> lvl + 1, max_factors |-> lvl + 1, holes_prob |-> lvl + 2]]

\* (mutant) an unknown level falls back to the hardest configuration
Config_DefaultsToLast(difficulty) ==
    IF difficulty \in DOMAIN difficulty_configs
    THEN difficulty_configs[difficulty] ELSE difficulty_configs[5]

\* self.difficulty_configs.get(difficulty, self.difficulty_configs[1])
Config(difficulty) ==
    IF difficulty \in DOMAIN difficulty_configs
    THEN difficulty_configs[difficulty] ELSE difficulty_configs[1]

\* (mutant) the quotient is left as built, nothing cancels
Simplify_NoCancel(num, den) == [num |-> num, den |-> den]

\* simplify(numerator / denominator): common factors cancel exactly
Simplify(num, den) ==
    [num |-> [mult |-> [a \in Roots |-> num.mult[a] - Min(num.mult[a], den.mult[a])],
              lead |-> num.lead,
              quad |-> num.quad - Min(num.quad, den.quad)],
     den |-> [mult |-> [a \in Roots |-> den.mult[a] - Min(num.mult[a], den.mult[a])],
              lead |-> den.lead,
              quad |-> den.quad - Min(num.quad, den.quad)]]

\* the dictionary generate_function returns ('function_str' and 'latex' are
\* renderings of 'function')
FunctionDict(numerator, denominator) ==
    [function |-> Simplify(numerator, denominator),
     numerator |-> numerator,
     denominator |-> denominator]

NoFunction == [function |-> [num |-> One, den |-> One], numerator |-> One, denominator |-> One]

(***************************************************************************)
(* analyze_function                                                        *)
(***************************************************************************)
\* a root solve returns: the real integer re, or the imaginary unit +-I
RealRoot(a) == [re |-> a, im |-> 0]
IsReal(root) == root.im = 0

RECURSIVE Ascending(_, _)
Ascending(S, a) ==
    IF a > RootMax THEN <<>>
    ELSE (IF a \in S THEN <<RealRoot(a)>> ELSE <<>>) \o Ascending(S, a + 1)

\* solve(p, x): the distinct roots, the real integers in ascending order and
\* then -I and I when p has the factor x^2 + 1
Solve(p) ==
    Ascending({a \in Roots : p.mult[a] > 0}, RootMin)
    \o (IF p.quad > 0 THEN <<[re |-> 0, im |-> -1], [re |-> 0, im |-> 1]>> ELSE <<>>)

\* root == h for a sympy Integer root and a Python float h.  Integer(0)
\* equals 0.0 in every SymPy; a nonzero Integer equals the float of the same
\* value up to SymPy 1.12 (float_eq) and no float at all from SymPy 1.13 on.
SymEqFloat(root, h, float_eq) ==
    IF root = 0 THEN h.sign = 0 ELSE float_eq /\ h = PyFloat(root, 1)

\* root in holes / root not in holes, holes a list of floats
SymInFloats(root, floats, float_eq) ==
    \E i \in 1..Len(floats) : SymEqFloat(root, floats[i], float_eq)

\* (mutant) the hole test is missing: every denominator root is an asymptote
RECURSIVE ClassifyDenRoots_AllAsymptotes(_, _)
ClassifyDenRoots_AllAsymptotes(den_roots, num_roots) ==
    IF den_roots = <<>> THEN [holes |-> <<>>, vertical_asymptotes |-> <<>>]
    ELSE LET n == Len(den_roots)
             root == den_roots[n]
             before == ClassifyDenRoots_AllAsymptotes(SubSeq(den_roots, 1, n - 1), num_roots)
         IN IF ~IsReal(root) THEN before
            ELSE [before EXCEPT !.vertical_asymptotes = Append(@, PyFloat(root.re, 1))]

\* (mutant) the hole test looks the root up in den_roots instead of num_roots
RECURSIVE ClassifyDenRoots_TestsDenRoots(_, _)
ClassifyDenRoots_TestsDenRoots(den_roots, num_roots) ==
    IF den_roots = <<>> THEN [holes |-> <<>>, vertical_asymptotes |-> <<>>]
    ELSE LET n == Len(den_roots)
             root == den_roots[n]
             before == ClassifyDenRoots_TestsDenRoots(SubSeq(den_roots, 1, n - 1), num_roots)
         IN IF ~IsReal(root) THEN before
            ELSE [before EXCEPT !.holes = Append(@, PyFloat(root.re, 1))]

\* (mutant) the root.is_real test is missing
RECURSIVE ClassifyDenRoots_IgnoresIsReal(_, _)
ClassifyDenRoots_IgnoresIsReal(den_roots, num_roots) ==
    IF den_roots = <<>> THEN [holes |-> <<>>, vertical_asymptotes |-> <<>>]
    ELSE LET n == Len(den_roots)
             root == den_roots[n]
             before == ClassifyDenRoots_IgnoresIsReal(SubSeq(den_roots, 1, n - 1), num_roots)
         IN IF \E j \in 1..Len(num_roots) : num_roots[j] = root
            THEN [before EXCEPT !.holes = Append(@, PyFloat(root.re, 1))]
            ELSE [before EXCEPT !.vertical_asymptotes = Append(@, PyFloat(root.re, 1))]

\* the loop over den_roots: holes and vertical_asymptotes after all of them
RECURSIVE ClassifyDenRoots(_, _)
ClassifyDenRoots(den_roots, num_roots) ==
    IF den_roots = <<>> THEN [holes |-> <<>>, vertical_asymptotes |-> <<>>]
    ELSE LET n == Len(den_roots)
             root == den_roots[n]
             before == ClassifyDenRoots(SubSeq(den_roots, 1, n - 1), num_roots)
         IN IF ~IsReal(root) THEN before
            ELSE IF \E j \in 1..Len(num_roots) : num_roots[j] = root
            THEN [before EXCEPT !.holes = Append(@, PyFloat(root.re, 1))]
            ELSE [before EXCEPT !.vertical_asymptotes = Append(@, PyFloat(root.re, 1))]

\* (mutant) the loop over num_roots without the `root not in holes` test
RECURSIVE XIntercepts_NoHoleTest(_, _, _)
XIntercepts_NoHoleTest(num_roots, holes, float_eq) ==
    IF num_roots = <<>> THEN <<>>
    ELSE LET n == Len(num_roots)
             root == num_roots[n]
             before == XIntercepts_NoHoleTest(SubSeq(num_roots, 1, n - 1), holes, float_eq)
         IN IF IsReal(root) THEN Append(before, PyFloat(root.re, 1)) ELSE before

\* the loop over num_roots
RECURSIVE XIntercepts(_, _, _)
XIntercepts(num_roots, holes, float_eq) ==
    IF num_roots = <<>> THEN <<>>
    ELSE LET n == Len(num_roots)
             root == num_roots[n]
             before == XIntercepts(SubSeq(num_roots, 1, n - 1), holes, float_eq)
         IN IF IsReal(root) /\ ~SymInFloats(root.re, holes, float_eq)
            THEN Append(before, PyFloat(root.re, 1)) ELSE before

\* limit(num/den, x, oo) of a quotient of nonzero polynomials: 0, the ratio
\* of the leading coefficients, or an infinity with the sign of that ratio
Limit(num, den) ==
    IF Degree(num) < Degree(den) THEN [kind |-> "finite", p |-> 0, q |-> 1]
    ELSE IF Degree(num) = Degree(den)
         THEN [kind |-> "finite", p |-> num.lead, q |-> den.lead]
    ELSE IF (num.lead > 0) = (den.lead > 0) THEN [kind |-> "oo", p |-> 0, q |-> 1]
    ELSE [kind |-> "-oo", p |-> 0, q |-> 1]

\* (mutant) only limit_inf == oo is recognised as "no asymptote"
FindHorizontalAsymptote_OnlyPlusInfinity(num, den) ==
    LET limit_inf == Limit(num, den)
    IN IF limit_inf.kind = "finite" THEN PyFloat(limit_inf.p, limit_inf.q)
       ELSE IF limit_inf.kind = "oo" THEN PyNone
       ELSE PyInt(0)

\* _find_horizontal_asymptote
FindHorizontalAsymptote(num, den) ==
    LET limit_inf == Limit(num, den)
    IN IF limit_inf.kind = "finite" THEN PyFloat(limit_inf.p, limit_inf.q)
       ELSE IF limit_inf.kind = "oo" \/ limit_inf.kind = "-oo" THEN PyNone
       ELSE PyInt(0)

\* p.subs(x, 0) of a factored polynomial
RECURSIVE SubsZeroFrom(_, _)
SubsZeroFrom(p, a) ==
    IF a > RootMax THEN p.lead
    ELSE Pow(0 - a, p.mult[a]) * SubsZeroFrom(p, a + 1)

SubsZero(p) == SubsZeroFrom(p, RootMin)

\* float(func.subs(self.x, 0)): a zero denominator makes the value zoo,
\* whose conversion to float raises TypeError
FloatSubsZero(func) ==
    IF SubsZero(func.den) = 0 THEN PyRaise("TypeError")
    ELSE PyFloat(SubsZero(func.num), SubsZero(func.den))

\* (mutant) no try/except around the conversion: the exception leaves
YIntercept_NoExcept(func) == FloatSubsZero(func)

\* except: y_intercept = None
NoneIfRaised(value) == IF value.t = "raise" THEN PyNone ELSE value

\* the try/except around it: any exception becomes None
YIntercept(func) == NoneIfRaised(FloatSubsZero(func))

AnalyzeFunction(function_dict, float_eq) ==
    LET den_roots == Solve(function_dict.denominator)
        num_roots == Solve(function_dict.numerator)
        cls == ClassifyDenRoots(den_roots, num_roots)
    IN [vertical_asymptotes |-> cls.vertical_asymptotes,
        holes |-> cls.holes,
        horizontal_asymptote |->
            FindHorizontalAsymptote(function_dict.numerator, function_dict.denominator),
        x_intercepts |-> XIntercepts(num_roots, cls.holes, float_eq),
        y_intercept |-> YIntercept(function_dict.function)]

NoAnalysis ==
    [vertical_asymptotes |-> <<>>, holes |-> <<>>, horizontal_asymptote |-> PyNone,
     x_intercepts |-> <<>>, y_intercept |-> PyNone]

(***************************************************************************)
(* str() of the values the question builders format.                       *)
(***************************************************************************)
\* str(float): the repr of the float
StrFloat(v) == v.repr

StrNumber(v) == IF v.t = "int" THEN ToString(v.n) ELSE StrFloat(v)

RECURSIVE JoinNumbers(_)
JoinNumbers(items) ==
    IF items = <<>> THEN ""
    ELSE IF Len(items) = 1 THEN StrNumber(items[1])
    ELSE StrNumber(items[1]) \o ", " \o JoinNumbers(Tail(items))

\* str(value)
Str(v) ==
    IF v.t = "list" THEN "[" \o JoinNumbers(v.items) \o "]"
    ELSE IF v.t = "str" THEN v.s
    ELSE IF v.t = "NoneType" THEN "None"
    ELSE StrNumber(v)

(***************************************************************************)
(* The question builders.                                                  *)
(***************************************************************************)
QuestionKinds == {"vertical_asymptotes", "horizontal_asymptote", "x_intercepts", "holes"}

\* (mutant) the dispatch table holds the two asymptote builders only
InQuestions_OnlyAsymptotes(question_type) ==
    question_type \in {"vertical_asymptotes", "horizontal_asymptote"}

\* the keys of the `questions` dispatch table
InQuestions(question_type) == question_type \in QuestionKinds

\* analysis[kind] as the builder's initial correct_answer
CorrectAnswer(kind, an) ==
    IF kind = "vertical_asymptotes" THEN PyList(an.vertical_asymptotes)
    ELSE IF kind = "x_intercepts" THEN PyList(an.x_intercepts)
    ELSE IF kind = "holes" THEN PyList(an.holes)
    ELSE an.horizontal_asymptote

\* not correct_answer (an empty list) / correct_answer is None
IsNoneAnswer(kind, correct_answer) ==
    IF kind = "horizontal_asymptote" THEN correct_answer.t = "NoneType"
    ELSE correct_answer.items = <<>>

\* _generate_va_question: the sample, the loop condition and the appended value
\*   wrong = random.randint(-5, 5)
\*   while wrong in correct_answer or wrong in wrong_answers
\*   wrong_answers.append([wrong])
VaCollides(draw, correct_answer, wrong_answers) ==
    PyIn(PyInt(draw), correct_answer.items) \/ PyIn(PyInt(draw), wrong_answers)

VaWrong(draw, correct_answer) == PyList(<<PyInt(draw)>>)

\* the horizontal asymptotes that are the ratio of two coefficients
\* _generate_polynomial can draw
HaValues == {PyFloat(p, q) : p \in CoeffMin..CoeffMax, q \in (CoeffMin..CoeffMax) \ {0}}

\* correct_answer + random.randint(-3, 3) for each of them and each draw,
\* worked out once
HaSums == [v \in HaValues |-> [k \in OffsetMin..OffsetMax |-> FloatAddInt(v, k)]]

\* _generate_ha_question:
\*   wrong = correct_answer + random.randint(-3, 3)
\*   while wrong == correct_answer or wrong in wrong_answers
HaWrong(draw, correct_answer) ==
    IF correct_answer.t # "float" THEN PyInt(correct_answer.n + draw)
    ELSE IF correct_answer \in DOMAIN HaSums /\ draw \in OffsetMin..OffsetMax
    THEN HaSums[correct_answer][draw]
    ELSE FloatAddInt(correct_answer, draw)

\* (mutant) the loop tests only wrong in wrong_answers
HaCollides_IgnoresCorrect(draw, correct_answer, wrong_answers) ==
    PyIn(HaWrong(draw, correct_answer), wrong_answers)

HaCollides(draw, correct_answer, wrong_answers) ==
    \/ PyEq(HaWrong(draw, correct_answer), correct_answer)
    \/ PyIn(HaWrong(draw, correct_answer), wrong_answers)

\* _generate_x_intercept_question:
\*   wrong = [random.randint(-5, 5)]
\*   while wrong == correct_answer or wrong in wrong_answers
XiWrong(draw, correct_answer) == PyList(<<PyInt(draw)>>)

XiCollides(draw, correct_answer, wrong_answers) ==
    \/ PyEq(XiWrong(draw, correct_answer), correct_answer)
    \/ PyIn(XiWrong(draw, correct_answer), wrong_answers)

\* _generate_holes_question: the same loop over analysis['holes']
HolesWrong(draw, correct_answer) == PyList(<<PyInt(draw)>>)

HolesCollides(draw, correct_answer, wrong_answers) ==
    \/ PyEq(HolesWrong(draw, correct_answer), correct_answer)
    \/ PyIn(HolesWrong(draw, correct_answer), wrong_answers)

Collides(kind, draw, correct_answer, wrong_answers) ==
    IF kind = "vertical_asymptotes" THEN VaCollides(draw, correct_answer, wrong_answers)
    ELSE IF kind = "horizontal_asymptote" THEN HaCollides(draw, correct_answer, wrong_answers)
    ELSE IF kind = "x_intercepts" THEN XiCollides(draw, correct_answer, wrong_answers)
    ELSE HolesCollides(draw, correct_answer, wrong_answers)

Wrong(kind, draw, correct_answer) ==
    IF kind = "vertical_asymptotes" THEN VaWrong(draw, correct_answer)
    ELSE IF kind = "horizontal_asymptote" THEN HaWrong(draw, correct_answer)
    ELSE IF kind = "x_intercepts" THEN XiWrong(draw, correct_answer)
    ELSE HolesWrong(draw, correct_answer)

\* (mutant) the horizontal-asymptote offset is drawn by randint(0, 1)
SampleRange_NarrowOffset(kind) ==
    IF kind = "horizontal_asymptote" THEN 0..1 ELSE RootMin..RootMax

\* the range a builder samples from: randint(-3, 3) or randint(-5, 5)
SampleRange(kind) ==
    IF kind = "horizontal_asymptote" THEN OffsetMin..OffsetMax ELSE RootMin..RootMax

WrongDraws(kind) == SampleRange(kind) \cap ((0 - MaxWrong)..MaxWrong)

\* the fixed wrong answers of a "None" question
FixedWrongAnswers(kind) ==
    IF kind = "horizontal_asymptote" THEN <<PyInt(0), PyInt(1), PyInt(-1)>>
    ELSE <<PyList(<<PyInt(-1)>>), PyList(<<PyInt(0)>>), PyList(<<PyInt(1)>>)>>

\* (mutant) the sampled wrong answers are kept for a "None" question
FinalWrongAnswers_KeepsSampled(kind, none, wrong_answers) == wrong_answers

\* wrong_answers as the builder puts them into choices
FinalWrongAnswers(kind, none, wrong_answers) ==
    IF none THEN FixedWrongAnswers(kind) ELSE wrong_answers

Explanation(kind) ==
    IF kind = "vertical_asymptotes"
    THEN "Vertical asymptotes occur where the denominator equals zero but the numerator doesn't."
    ELSE IF kind = "horizontal_asymptote"
    THEN "Horizontal asymptotes depend on the degrees of numerator and denominator."
    ELSE IF kind = "x_intercepts"
    THEN "X-intercepts occur where the numerator equals zero but the denominator doesn't."
    ELSE "Holes occur where both numerator and denominator equal zero."

\* str(choice) if choice != "None" else "None"
ChoiceString(choice) == IF ~PyEq(choice, PyStr("None")) THEN Str(choice) ELSE "None"

\* random.shuffle(choices): the outcomes are the permutations of the list
Shuffles(choices) ==
    { [i \in 1..Len(choices) |-> choices[perm[i]]] :
        perm \in Permutations(1..Len(choices)) }

\* the dictionary a builder returns, for the shuffled choices (the 'question'
\* text is a fixed sentence around function_dict['function_str'])
Question(kind, correct_answer, choices) ==
    [kind |-> kind,
     choices |-> [i \in 1..Len(choices) |-> ChoiceString(choices[i])],
     correct_answer |-> ChoiceString(correct_answer),
     explanation |-> Explanation(kind)]

NoQuestion == [kind |-> "", choices |-> <<>>, correct_answer |-> "", explanation |-> ""]

(***************************************************************************)
(* State.                                                                  *)
(***************************************************************************)
VARIABLES
    pc,             \* "idle", "configured", "polynomial", "generated", "analyzed",
                    \* "sampling", "asked"
    sympy_float_eq, \* the installed SymPy: whether Integer(n) == float(n) for n # 0
    difficulty,     \* the argument of the last generate_function call
    config,         \* the configuration it looked up
    poly,           \* the last _generate_polynomial call: its draws and its result
    hole_factor,    \* the a of the injected factor (x - a), or NoHole
    drawn,          \* numerator and denominator before the injection branch
    function_dict,  \* the dictionary generate_function returned
    analysis,       \* the dictionary analyze_function returned
    question_type,  \* the question_type generate_multiple_choice_question was called with
    kind,           \* the builder it dispatched to
    wrong_answers,  \* the builder's wrong_answers list
    question,       \* the dictionary the builder returned
    now,                    \* time.time(), in whole seconds
    last_run,               \* the last step, when it was a script run of the active timed
                            \* challenge: "rerun" or "submit"; "none" after any other step
    timed_mode,             \* st.session_state.timed_mode
    timed_active,           \* st.session_state.timed_active
    timed_finished,         \* st.session_state.timed_finished
    timed_start_time,       \* st.session_state.timed_start_time
    timed_questions,        \* st.session_state.timed_questions, each by its 'difficulty'
    timed_current_question, \* st.session_state.timed_current_question
    timed_answers,          \* st.session_state.timed_answers
    timed_scores,           \* st.session_state.timed_scores
    current_score,          \* st.session_state.current_score
    stats_updates,          \* the update_player_stats calls made so far
    achievements,           \* st.session_state.achievements, each by its key
    player_stats,           \* st.session_state.player_stats, by player name
    leaderboard_posts,      \* the update_player_score calls the game modes made
    scored,                 \* the last calculate_score call: its arguments and its result
    practice_screen,             \* the practice page after the last script run: "closed"
                                 \* (game_mode is another page), "question" or "results"
                                 \* (what the run showed), "rerun" (the run ended in
                                 \* st.rerun() and the page has yet to run)
    practice_question,           \* st.session_state.practice_question
    practice_answer_submitted,   \* st.session_state.practice_answer_submitted
    practice_user_correct,       \* practice_user_answer == the question's correct_answer
    practice_streak,             \* st.session_state.practice_streak
    practice_questions_answered, \* st.session_state.practice_questions_answered
    practice_events,             \* the button presses and reruns of the practice page so far
    practice_before,             \* the counters as they were when the last answer was submitted
    difficulty_level,            \* st.session_state.difficulty_level
    player_name,                 \* st.session_state.player_name
    mp_room_id, mp_room_type, mp_players, mp_waiting_for_players, mp_active, mp_finished,
    mp_current_question, mp_questions, mp_answers, mp_scores, mp_start_time,
    mp_player_answered,          \* st.session_state.mp_*
    mp_sleeping,                 \* the script run of the active quiz is in the time.sleep(2)
                                 \* before _advance_to_next_question; the session starts no
                                 \* other run until this one has ended
    mp_leaderboard_data,         \* leaderboard_data of the LeaderboardManager of the run
                                 \* that sleeps, loaded when the run began
    game_before,                 \* per kind of game, the number of leaderboard posts when
                                 \* the last game of that kind started
    leaderboard_file,            \* leaderboard.json: whether it exists and its content
    managers,                    \* the LeaderboardManager instances: leaderboard_data of each
    saving,                      \* per instance, the file its _save_leaderboard has opened
                                 \* while json.dump is still to come: "opened" (empty since
                                 \* the open), "overwritten" (written to by another since),
                                 \* "unlinked" (removed since); "no" outside a save
    recorded,                    \* per player, the update_player_score calls made on the
                                 \* instances of managers since the last reset
    last_call,                   \* the last update_player_score or reset_player_data call:
                                 \* its instance, its player, the number of updates made,
                                 \* a bit that every reset flips, and whether the call's
                                 \* leaderboard reached the file
    last_query                   \* the last get_leaderboard or get_player_rank call: its
                                 \* instance, its arguments and what it returned

vars == <<pc, sympy_float_eq, difficulty, config, poly, hole_factor, drawn, function_dict, analysis,
          question_type, kind, wrong_answers, question,
          now, last_run, timed_mode, timed_active, timed_finished, timed_start_time,
          timed_questions, timed_current_question, timed_answers, timed_scores,
          current_score, stats_updates, achievements, player_stats, leaderboard_posts, scored,
          practice_screen, practice_question, practice_answer_submitted,
          practice_user_correct, practice_streak, practice_questions_answered,
          practice_events, practice_before, difficulty_level,
          player_name, mp_room_id, mp_room_type, mp_players, mp_waiting_for_players,
          mp_active, mp_finished, mp_current_question, mp_questions, mp_answers, mp_scores,
          mp_start_time, mp_player_answered, mp_sleeping, mp_leaderboard_data, game_before,
          leaderboard_file, managers, saving, recorded, last_call, last_query>>

function_vars == <<difficulty, config, poly, hole_factor, drawn, function_dict>>

NoConfig == [max_degree |-> 0, max_factors |-> 0, holes_prob |-> 0]
NoPolynomial == [degree |-> 0, factors |-> 0, as |-> <<>>, c |-> 0, polynomial |-> One]
question_vars == <<question_type, kind, wrong_answers, question>>
timed_vars == <<now, last_run, timed_mode, timed_active, timed_finished, timed_start_time,
                timed_questions, timed_current_question, timed_answers, timed_scores,
                current_score, stats_updates, achievements, player_stats, leaderboard_posts,
                game_before>>
generator_vars == <<pc, sympy_float_eq, difficulty, config, poly, hole_factor, drawn,
                    function_dict, analysis, question_type, kind, wrong_answers, question>>

practice_keys == <<practice_question, practice_answer_submitted, practice_user_correct,
                   practice_streak, practice_questions_answered, practice_events,
                   practice_before, difficulty_level>>
practice_vars == <<practice_screen, practice_keys>>
mp_vars == <<player_name, mp_room_id, mp_room_type, mp_players, mp_waiting_for_players,
             mp_active, mp_finished, mp_current_question, mp_questions, mp_answers, mp_scores,
             mp_start_time, mp_player_answered, mp_sleeping, mp_leaderboard_data>>
manager_vars == <<managers, saving, recorded, last_call, last_query>>
lb_vars == <<leaderboard_file, manager_vars>>
extra_vars == <<scored, practice_vars, mp_vars, lb_vars>>
\* what a script run of a game page leaves alone besides its own keys
game_rest == <<scored, practice_vars, mp_vars, manager_vars>>

\* an empty dict
EmptyDict == [k \in {} |-> 0]

\* the names explored: one that is in no mock room and one that is
PlayerNames == {"Player", "Alice"}

\* the LeaderboardManager instances explored
Instances == 1..2

\* leaderboard.json before the first save
NoFile == [exists |-> FALSE, parses |-> TRUE, writable |-> TRUE, data |-> EmptyDict]
NoManager == [constructed |-> FALSE, leaderboard_data |-> EmptyDict]
NoCall == [instance |-> 0, player_name |-> "", number |-> 0, resets |-> 0, saved |-> TRUE]
\* limit=None
NoLimit == [given |-> FALSE, value |-> 0]
NoQuery == [op |-> "None", instance |-> 0, limit |-> NoLimit, player_name |-> "",
            rows |-> <<>>, rank |-> 0]

\* no LeaderboardManager constructed, no score recorded
LeaderboardInit ==
    /\ leaderboard_file = NoFile
    /\ recorded = [p \in PlayerNames |-> 0]
    /\ last_query = NoQuery

\* MultiplayerQuiz._initialize_session_state: the defaults of the mp_ keys
MpDefaults ==
    [room_id |-> "None", room_type |-> "None", players |-> <<>>, current_question |-> 0,
     questions |-> <<>>, answers |-> EmptyDict, scores |-> EmptyDict, start_time |-> 0,
     active |-> FALSE, finished |-> FALSE, player_answered |-> FALSE,
     waiting_for_players |-> FALSE]

\* the mp_ keys of the session become the fields of ms
MpBecomes(ms) ==
    /\ mp_room_id' = ms.room_id
    /\ mp_room_type' = ms.room_type
    /\ mp_players' = ms.players
    /\ mp_current_question' = ms.current_question
    /\ mp_questions' = ms.questions
    /\ mp_answers' = ms.answers
    /\ mp_scores' = ms.scores
    /\ mp_start_time' = ms.start_time
    /\ mp_active' = ms.active
    /\ mp_finished' = ms.finished
    /\ mp_player_answered' = ms.player_answered
    /\ mp_waiting_for_players' = ms.waiting_for_players

\* no game of either kind started yet
NoStart == [valid |-> FALSE, posts |-> 0]
NoGame == [timed |-> NoStart, multiplayer |-> NoStart]

\* a game of a kind starts: the posts made so far
GameStarts(game) ==
    game_before' = [game_before EXCEPT ![game] = [valid |-> TRUE,
                                                  posts |-> Len(leaderboard_posts)]]

\* st.session_state.player_stats before update_player_stats is first called
NoPlayerStats == [name \in {} |-> 0]

\* MultiplayerQuiz.__init__ on a fresh session
MpInit ==
    /\ mp_room_id = MpDefaults.room_id
    /\ mp_room_type = MpDefaults.room_type
    /\ mp_players = MpDefaults.players
    /\ mp_current_question = MpDefaults.current_question
    /\ mp_questions = MpDefaults.questions
    /\ mp_answers = MpDefaults.answers
    /\ mp_scores = MpDefaults.scores
    /\ mp_start_time = MpDefaults.start_time
    /\ mp_active = MpDefaults.active
    /\ mp_finished = MpDefaults.finished
    /\ mp_player_answered = MpDefaults.player_answered
    /\ mp_waiting_for_players = MpDefaults.waiting_for_players
    /\ mp_sleeping = FALSE
    /\ mp_leaderboard_data = EmptyDict

NoPracticeQuestion == [present |-> FALSE, difficulty |-> 0, question_type |-> "None"]
NoSubmission == [valid |-> FALSE, answered |-> 0, streak |-> 0, stats |-> 0, correct |-> FALSE]

\* PracticeMode.__init__ on a fresh session, with the difficulty_level the
\* app gives it
PracticeInit ==
    /\ difficulty_level = 1
    /\ practice_screen = "closed"
    /\ practice_question = NoPracticeQuestion
    /\ practice_answer_submitted = FALSE
    /\ practice_user_correct = FALSE
    /\ practice_streak = 0
    /\ practice_questions_answered = 0
    /\ practice_events = 0
    /\ practice_before = NoSubmission

NoScore == [called |-> FALSE, is_correct |-> FALSE, difficulty_level |-> 0,
            time_taken |-> [p |-> 0, q |-> 1], current_streak |-> 0, score |-> 0]

\* TimedChallenge.__init__ on a fresh session: no challenge chosen
TimedInit ==
    /\ scored = NoScore
    /\ PracticeInit
    /\ MpInit
    /\ player_name = ""
    /\ game_before = NoGame
    /\ managers = [i \in Instances |-> NoManager]
    /\ saving = [i \in Instances |-> "no"]
    /\ last_call = NoCall
    /\ now = 0
    /\ last_run = "none"
    /\ timed_mode = "None"
    /\ timed_active = FALSE
    /\ timed_finished = FALSE
    /\ timed_start_time = 0
    /\ timed_questions = <<>>
    /\ timed_current_question = 0
    /\ timed_answers = <<>>
    /\ timed_scores = <<>>
    /\ current_score = 0
    /\ stats_updates = 0
    /\ achievements = <<>>
    /\ player_stats = NoPlayerStats
    /\ leaderboard_posts = <<>>

NoHole == RootMax + 1

Difficulties == 0..MaxDifficulty

\* what generate_function leaves behind for the drawn numerator and
\* denominator and the shared-factor draw h (NoHole: the branch not taken)
Generated(lvl, numerator, denominator, h) ==
    [difficulty |-> lvl,
     hole_factor |-> h,
     drawn |-> [numerator |-> numerator, denominator |-> denominator],
     function_dict |->
        IF h = NoHole THEN FunctionDict(numerator, denominator)
        ELSE FunctionDict(MulLinearFactor(numerator, h), MulLinearFactor(denominator, h))]

\* the results of generate_function(lvl) for draws from roots and coeffs:
\* the numerator, the denominator (redrawn while it is 0), then the shared
\* factor on the random.random() < holes_prob branch, its draw from holes
GenerateFunctionOutcomes(lvl, roots, coeffs, holes) ==
    LET level == Config(lvl)
        outcomes == PolynomialOutcomes(level.max_degree, level.max_factors, roots, coeffs)
    IN { Generated(lvl, numerator, denominator, h) :
           numerator \in outcomes,
           denominator \in {p \in outcomes : ~IsZero(p)},
           h \in holes }

\* no function generated yet
GeneratorInit ==
    /\ pc = "idle"
    /\ difficulty = 1
    /\ config = NoConfig
    /\ poly = NoPolynomial
    /\ hole_factor = NoHole
    /\ drawn = [numerator |-> One, denominator |-> One]
    /\ function_dict = NoFunction
    /\ analysis = NoAnalysis
    /\ question_type = ""
    /\ kind = ""
    /\ wrong_answers = <<>>
    /\ question = NoQuestion

Init ==
    /\ sympy_float_eq \in BOOLEAN
    /\ GeneratorInit
    /\ TimedInit
    /\ LeaderboardInit

\* function_dict = generate_function(difficulty)
GenerateFunction ==
    /\ pc = "idle"
    /\ \E lvl \in Difficulties :
       \E g \in GenerateFunctionOutcomes(lvl, RootDraws, CoeffDraws, RootDraws \cup {NoHole}) :
            /\ difficulty' = g.difficulty
            /\ config' = Config(lvl)
            /\ hole_factor' = g.hole_factor
            /\ drawn' = g.drawn
            /\ function_dict' = g.function_dict
    /\ pc' = "generated"
    /\ UNCHANGED <<sympy_float_eq, poly, analysis>>
    /\ UNCHANGED question_vars
    /\ UNCHANGED timed_vars
    /\ UNCHANGED extra_vars

\* analysis = analyze_function(function_dict)
Analyze ==
    /\ pc = "generated"
    /\ analysis' = AnalyzeFunction(function_dict, sympy_float_eq)
    /\ pc' = "analyzed"
    /\ UNCHANGED <<sympy_float_eq, function_vars>>
    /\ UNCHANGED question_vars
    /\ UNCHANGED timed_vars
    /\ UNCHANGED extra_vars

Next == GenerateFunction \/ Analyze

Spec == Init /\ [][Next]_vars

(***************************************************************************)
(* The first steps of generate_function on their own: the configuration    *)
(* lookup for any difficulty argument, known or not, and one call of       *)
(* _generate_polynomial with that configuration.                           *)
(***************************************************************************)
KnownDifficulties == 1..Min(5, MaxDifficulty + 1)
UnknownDifficulties == {0, 6}

\* config = self.difficulty_configs.get(difficulty, self.difficulty_configs[1])
LookupConfig ==
    /\ pc = "idle"
    /\ difficulty' \in KnownDifficulties \cup UnknownDifficulties
    /\ config' = Config(difficulty')
    /\ pc' = "configured"
    /\ UNCHANGED <<sympy_float_eq, poly, hole_factor, drawn, function_dict, analysis>>
    /\ UNCHANGED question_vars
    /\ UNCHANGED timed_vars
    /\ UNCHANGED extra_vars

\* self._generate_polynomial(config["max_degree"], config["max_factors"])
GeneratePolynomialCall ==
    /\ pc = "configured"
    /\ \E degree \in 1..config.max_degree :
       \E factors \in 1..Min(config.max_factors, degree) :
       \E as \in [1..factors -> RootDraws] :
       \E c \in (IF degree > factors THEN CoeffDraws ELSE {0}) :
            poly' = [degree |-> degree, factors |-> factors, as |-> as, c |-> c,
                     polynomial |-> GeneratePolynomial(degree, factors, as, c)]
    /\ pc' = "polynomial"
    /\ UNCHANGED <<sympy_float_eq, difficulty, config, hole_factor, drawn, function_dict,
                   analysis>>
    /\ UNCHANGED question_vars
    /\ UNCHANGED timed_vars
    /\ UNCHANGED extra_vars

NextP == LookupConfig \/ GeneratePolynomialCall

SpecP == Init /\ [][NextP]_vars

(***************************************************************************)
(* analyze_function on dictionaries built by hand: numerators of degree at *)
(* most 2 with roots among ScenarioRoots, and denominators that are such a *)
(* polynomial or x^2 + 1.                                                  *)
(***************************************************************************)
ScenarioRoots == {0, 2, 3}
ScenarioCoeffs == {2}

\* x**2 + 1
XSquaredPlusOne == [One EXCEPT !.quad = 1]

ScenarioNumerators == PolynomialOutcomes(2, 2, ScenarioRoots, ScenarioCoeffs)
ScenarioDenominators == ScenarioNumerators \cup {XSquaredPlusOne}

InitS ==
    /\ pc = "generated"
    /\ sympy_float_eq \in BOOLEAN
    /\ difficulty = 1
    /\ config = NoConfig
    /\ poly = NoPolynomial
    /\ hole_factor = NoHole
    /\ \E numerator \in ScenarioNumerators, denominator \in ScenarioDenominators :
            /\ drawn = [numerator |-> numerator, denominator |-> denominator]
            /\ function_dict = FunctionDict(numerator, denominator)
    /\ analysis = NoAnalysis
    /\ question_type = ""
    /\ kind = ""
    /\ wrong_answers = <<>>
    /\ question = NoQuestion
    /\ TimedInit
    /\ LeaderboardInit

NextS == Analyze

SpecS == InitS /\ [][NextS]_vars

(***************************************************************************)
(* generate_multiple_choice_question on an analysed function: a level-1    *)
(* function whose draws come from QRoots and QCoeffs, its numerator and    *)
(* denominator sharing a root only by coincidence.                         *)
(***************************************************************************)
QRoots == {-1, 2}
QCoeffs == {3}
\* the question_type arguments: the four kinds, the "random" sentinel, None
\* (what the game modes pass, written "None" here) and a string that names
\* no kind
QuestionTypes == QuestionKinds \cup {"random", "None", "y_intercept"}

InitQ ==
    /\ pc = "analyzed"
    /\ sympy_float_eq \in BOOLEAN
    /\ \E g \in GenerateFunctionOutcomes(1, QRoots, QCoeffs, {NoHole}) :
            /\ difficulty = g.difficulty
            /\ config = Config(1)
            /\ poly = NoPolynomial
            /\ hole_factor = g.hole_factor
            /\ drawn = g.drawn
            /\ function_dict = g.function_dict
    /\ analysis = AnalyzeFunction(function_dict, sympy_float_eq)
    /\ question_type = ""
    /\ kind = ""
    /\ wrong_answers = <<>>
    /\ question = NoQuestion
    /\ TimedInit
    /\ LeaderboardInit

\* generate_multiple_choice_question(function_dict, analysis, question_type):
\* the dispatch, through _generate_random_question when question_type is no
\* key of `questions`, up to the builder's wrong_answers = []
StartQuestion ==
    /\ pc = "analyzed"
    /\ \E qt \in QuestionTypes :
        /\ question_type' = qt
        /\ IF InQuestions(qt) THEN kind' = qt ELSE kind' \in QuestionKinds
    /\ wrong_answers' = <<>>
    /\ pc' = "sampling"
    /\ UNCHANGED <<sympy_float_eq, function_vars, analysis, question>>
    /\ UNCHANGED timed_vars
    /\ UNCHANGED extra_vars

\* the loops run: three times for a list kind, three times for a numeric
\* horizontal asymptote, not at all for a None horizontal asymptote
SamplingDone ==
    \/ Len(wrong_answers) = 3
    \/ kind = "horizontal_asymptote" /\ IsNoneAnswer(kind, CorrectAnswer(kind, analysis))

\* one pass of a builder's for loop: a sample that collides is drawn again
\* (the while loop), the first one that does not is appended
SampleWrong ==
    /\ pc = "sampling"
    /\ ~SamplingDone
    /\ \E draw \in WrongDraws(kind) :
        /\ ~Collides(kind, draw, CorrectAnswer(kind, analysis), wrong_answers)
        /\ wrong_answers' = Append(wrong_answers, Wrong(kind, draw, CorrectAnswer(kind, analysis)))
    /\ UNCHANGED <<pc, sympy_float_eq, function_vars, analysis, question_type, kind, question>>
    /\ UNCHANGED timed_vars
    /\ UNCHANGED extra_vars

\* after the loops: the "None" replacement, the shuffle and the returned dictionary
FinishQuestion ==
    /\ pc = "sampling"
    /\ SamplingDone
    /\ LET initial == CorrectAnswer(kind, analysis)
           none == IsNoneAnswer(kind, initial)
           correct_answer == IF none THEN PyStr("None") ELSE initial
           wrongs == FinalWrongAnswers(kind, none, wrong_answers)
       IN \E choices \in Shuffles(<<correct_answer>> \o wrongs) :
            question' = Question(kind, correct_answer, choices)
    /\ wrong_answers' = <<>>
    /\ pc' = "asked"
    /\ UNCHANGED <<sympy_float_eq, function_vars, analysis, question_type, kind>>
    /\ UNCHANGED timed_vars
    /\ UNCHANGED extra_vars

NextQ == StartQuestion \/ SampleWrong \/ FinishQuestion

SpecQ == InitQ /\ [][NextQ]_vars

(***************************************************************************)
(* Termination of the builders: a builder entered through                  *)
(* _generate_random_question for a function drawn from TRoots and TCoeffs. *)
(* random.randint is fair: a loop that has an admissible value left draws  *)
(* one eventually, and a builder whose loops are over goes on to return.   *)
(***************************************************************************)
TRoots == {2}
TCoeffs == {-2}

InitT ==
    /\ pc = "sampling"
    /\ sympy_float_eq \in BOOLEAN
    /\ \E g \in GenerateFunctionOutcomes(1, TRoots, TCoeffs, {NoHole}) :
            /\ difficulty = g.difficulty
            /\ config = Config(1)
            /\ poly = NoPolynomial
            /\ hole_factor = g.hole_factor
            /\ drawn = g.drawn
            /\ function_dict = g.function_dict
    /\ analysis = AnalyzeFunction(function_dict, sympy_float_eq)
    /\ question_type = "random"
    /\ kind \in QuestionKinds
    /\ wrong_answers = <<>>
    /\ question = NoQuestion
    /\ TimedInit
    /\ LeaderboardInit

NextT == SampleWrong \/ FinishQuestion

SpecT == InitT /\ [][NextT]_vars /\ WF_vars(SampleWrong) /\ WF_vars(FinishQuestion)

(***************************************************************************)
(* The timed challenge (TimedChallenge): one action per script run of the  *)
(* page, and the clock.  A question of timed_questions is held by its      *)
(* 'difficulty', an answer by the fields the challenge reads back.         *)
(***************************************************************************)
\* self.challenge_configs
challenge_configs ==
    [sprint |-> [duration |-> 60, questions |-> 10],
     marathon |-> [duration |-> 300, questions |-> 25],
     blitz |-> [duration |-> 30, questions |-> 5]]

\* the challenges the selection screen starts, by the length of their question list
ChallengeTypes ==
    {t \in {"sprint", "marathon", "blitz"} : challenge_configs[t].questions <= MaxQuestions}

\* random.randint(1, 3) of a blitz question
BlitzDraws == 1..Min(3, MaxDifficulty)

\* the difficulty of question i (from 0) of a challenge, draw the blitz draw
QuestionDifficulty(challenge_type, i, draw) ==
    IF challenge_type = "sprint" THEN Min(5, (i \div 2) + 1)
    ELSE IF challenge_type = "marathon" THEN Min(5, (i \div 5) + 1)
    ELSE draw

\* the lists _start_challenge can generate
GeneratedQuestions(challenge_type) ==
    LET n == challenge_configs[challenge_type].questions
    IN { [k \in 1..n |-> QuestionDifficulty(challenge_type, k - 1, draws[k])] :
            draws \in [1..n -> BlitzDraws] }

\* sum(st.session_state.timed_scores)
RECURSIVE Sum(_)
Sum(scores) == IF scores = <<>> THEN 0 ELSE Head(scores) + Sum(Tail(scores))

\* (mutant) an unknown level gets the multiplier of level 5
DifficultyMultiplier_DefaultsToTwo(level) ==
    IF level \in 1..5
    THEN <<100, 120, 150, 180, 200>>[level] ELSE 200

\* base_points['difficulty_multiplier'].get(difficulty_level, 1.0), in hundredths
DifficultyMultiplier(level) ==
    IF level \in 1..5
    THEN <<100, 120, 150, 180, 200>>[level] ELSE 100

\* ScoringSystem.calculate_score, level the difficulty_level and time_taken
\* the quotient p/q of seconds
CalculateScore(is_correct, level, time_taken, current_streak) ==
    IF ~is_correct THEN 0
    ELSE ((100 * DifficultyMultiplier(level)) \div 100)
         + (IF time_taken.p < 5 * time_taken.q THEN 50 ELSE 0)
         + (IF current_streak >= 3 THEN Min(current_streak - 2, 10) * 25 ELSE 0)

\* _process_answer: time_taken, the whole elapsed time for the first
\* question and the average time per question after it
TimeTaken(elapsed, current_question) ==
    IF current_question = 0 THEN [p |-> elapsed, q |-> 1]
    ELSE [p |-> elapsed, q |-> current_question + 1]

\* _process_answer: current_streak
CurrentStreak(answers, is_correct) ==
    IF is_correct THEN Cardinality({i \in 1..Len(answers) : answers[i].correct}) ELSE 0

(***************************************************************************)
(* leaderboard.json and LeaderboardManager.update_player_score on the      *)
(* loaded leaderboard_data.  An entry carries, besides the fields of the   *)
(* code, the history of the calls made for it since it was created; the    *)
(* timestamps (last_played, date) are left out.                            *)
(***************************************************************************)
\* _load_leaderboard
LoadLeaderboard_ReadsDamaged(file) == IF file.exists THEN file.data ELSE EmptyDict

LoadLeaderboard(file) == IF file.exists /\ file.parses THEN file.data ELSE EmptyDict

\* (mutant) the oldest records are kept
KeepLast_KeepsFirst(records, n) ==
    IF Len(records) > n THEN SubSeq(records, 1, n) ELSE records

\* player_data['game_scores'][-n:] when the list is longer than n
KeepLast(records, n) ==
    IF Len(records) > n THEN SubSeq(records, Len(records) - n + 1, Len(records)) ELSE records

\* the entry update_player_score creates for an unknown player
NewEntry ==
    [total_score |-> 0, games_played |-> 0, best_score |-> 0, max_level |-> 1,
     game_scores |-> <<>>, history |-> <<>>]

\* dict d with key k set to v
DictSet(d, k, v) == [x \in DOMAIN d \cup {k} |-> IF x = k THEN v ELSE d[x]]

\* dict d without key k
DictDel(d, k) == [x \in DOMAIN d \ {k} |-> d[x]]

\* (mutant) best_score is the score of the last game
UpdateEntry_BestIsLast(player_data, score, level, game_mode) ==
    LET game_record == [score |-> score, level |-> level, mode |-> game_mode]
    IN [total_score |-> player_data.total_score + score,
        games_played |-> player_data.games_played + 1,
        best_score |-> score,
        max_level |-> Max(player_data.max_level, level),
        game_scores |-> KeepLast(Append(player_data.game_scores, game_record), MaxGameRecords),
        history |-> Append(player_data.history, game_record)]

\* update_player_score: the player's entry after the call
UpdateEntry(player_data, score, level, game_mode) ==
    LET game_record == [score |-> score, level |-> level, mode |-> game_mode]
    IN [total_score |-> player_data.total_score + score,
        games_played |-> player_data.games_played + 1,
        best_score |-> Max(player_data.best_score, score),
        max_level |-> Max(player_data.max_level, level),
        game_scores |-> KeepLast(Append(player_data.game_scores, game_record), MaxGameRecords),
        history |-> Append(player_data.history, game_record)]

\* update_player_score: leaderboard_data after the call
UpdatePlayerScoreIn(leaderboard_data, name, score, level, game_mode) ==
    LET player_data == IF name \in DOMAIN leaderboard_data THEN leaderboard_data[name]
                       ELSE NewEntry
    IN DictSet(leaderboard_data, name, UpdateEntry(player_data, score, level, game_mode))

\* _save_leaderboard when open and json.dump succeed
SaveLeaderboard(leaderboard_data) ==
    [exists |-> TRUE, parses |-> TRUE, writable |-> TRUE, data |-> leaderboard_data]

\* _save_leaderboard: the files the call can leave behind.  On a writable disk
\* the file holds leaderboard_data.  Otherwise the exception is swallowed:
\* either open failed and the file is as it was, or open truncated the file
\* and json.dump failed, which leaves a part of leaderboard_data that does
\* not parse.
SaveOutcomes(file, leaderboard_data) ==
    IF file.writable
    THEN {[file EXCEPT !.exists = TRUE, !.parses = TRUE, !.data = leaderboard_data]}
    ELSE {file, [file EXCEPT !.exists = TRUE, !.parses = FALSE, !.data = leaderboard_data]}

\* json.dump(self.leaderboard_data, f) on the file opened before (opened as
\* in saving): the files it can leave behind.  The dump into a file removed
\* since the open does not reach the disk, whether or not another file has
\* been created since; on a disk that takes no writes the file is as it was
\* or holds a part of leaderboard_data that does not parse; the dump writes
\* from the start of the file, so over content written by another since the
\* open it leaves leaderboard_data, or leaderboard_data followed by the rest
\* of the longer content, which does not parse ("{}" is never longer).
DumpOutcomes(file, opened, leaderboard_data) ==
    LET written == [file EXCEPT !.parses = TRUE, !.data = leaderboard_data]
        damaged == [file EXCEPT !.parses = FALSE, !.data = leaderboard_data]
    IN IF opened = "unlinked" \/ ~file.exists THEN {file}
       ELSE IF ~file.writable THEN {file, damaged}
       ELSE IF opened = "overwritten" /\ ~(file.parses /\ file.data = EmptyDict)
       THEN {written, damaged}
       ELSE {written}

\* self.leaderboard_manager.update_player_score(name, score,
\* st.session_state.difficulty_level, game_mode) of a game page: the page's
\* LeaderboardManager was constructed when the script run began and holds
\* leaderboard_data, the file as it was then; the call posts the score and
\* writes the file
PostScore(leaderboard_data, name, score, game_mode) ==
    /\ leaderboard_file' \in
            SaveOutcomes(leaderboard_file,
                         UpdatePlayerScoreIn(leaderboard_data, name, score,
                                             difficulty_level, game_mode))
    /\ leaderboard_posts' = Append(leaderboard_posts, [player_name |-> name, score |-> score,
                                                        game_type |-> game_mode])

(***************************************************************************)
(* The player statistics and achievements of ScoringSystem.  A player's    *)
(* statistics are the fields that check_achievements and the level depend  *)
(* on; total_questions, total_time and the two by-type tallies, which only *)
(* get_performance_analytics reads, are left out.  An achievement is named *)
(* by its key, in st.session_state.achievements as well, where the code    *)
(* keeps the display name of the key.                                      *)
(***************************************************************************)
\* self.achievements: the points of each achievement
AchievementValue ==
    [first_correct |-> 50, speed_demon |-> 200, perfectionist |-> 500, asymptote_master |-> 300,
     intercept_hunter |-> 250, hole_finder |-> 200, level_up |-> 100]

\* the keys in the order check_achievements looks at them
AchievementKeys ==
    <<"first_correct", "speed_demon", "perfectionist", "asymptote_master", "intercept_hunter",
      "hole_finder", "level_up">>

\* key in a list of keys
InList(key, list) == \E i \in 1..Len(list) : list[i] = key

\* the points of the achievements in a list
RECURSIVE AchievementPoints(_)
AchievementPoints(list) ==
    IF list = <<>> THEN 0 ELSE AchievementValue[Head(list)] + AchievementPoints(Tail(list))

\* get_level_requirements(level) for level 2 to 5, 1000 * level ** 1.5, as
\* the least whole score that reaches it
LevelRequirements == <<2829, 5197, 8000, 11181>>

\* calculate_level_from_score
CalculateLevelFromScore(total_score) ==
    Min(1 + Cardinality({l \in 1..Len(LevelRequirements) : total_score >= LevelRequirements[l]}), 5)

\* the statistics update_player_stats gives a new player
NewPlayerStats ==
    [total_correct |-> 0, total_score |-> 0, quick_answers |-> 0, current_streak |-> 0,
     max_streak |-> 0, current_level |-> 1, max_earned_level |-> 0, asymptotes_correct |-> 0,
     intercepts_correct |-> 0, holes_correct |-> 0, earned_achievements |-> <<>>]

\* str.lower() of a string of ASCII characters
LowerCase ==
    [A |-> "a", B |-> "b", C |-> "c", D |-> "d", E |-> "e", F |-> "f", G |-> "g", H |-> "h",
     I |-> "i", J |-> "j", K |-> "k", L |-> "l", M |-> "m", N |-> "n", O |-> "o", P |-> "p",
     Q |-> "q", R |-> "r", S |-> "s", T |-> "t", U |-> "u", V |-> "v", W |-> "w", X |-> "x",
     Y |-> "y", Z |-> "z"]

RECURSIVE Lower(_)
Lower(str) ==
    LET c == SubSeq(str, 1, 1)
    IN IF str = "" THEN ""
       ELSE (IF c \in DOMAIN LowerCase THEN LowerCase[c] ELSE c) \o Lower(SubSeq(str, 2, Len(str)))

\* sub in str
Contains(str, sub) ==
    \E i \in 1..(Len(str) - Len(sub) + 1) : SubSeq(str, i, i + Len(sub) - 1) = sub

\* update_player_stats: the tally a correct answer to a question of the
\* type lower, in lower case, is added to
TallyOfLower(lower) ==
    IF Contains(lower, "asymptote") THEN "asymptote"
    ELSE IF Contains(lower, "intercept") THEN "intercept"
    ELSE IF Contains(lower, "hole") THEN "hole"
    ELSE "other"

Tally(q_type) == IF q_type = "" THEN "other" ELSE TallyOfLower(Lower(q_type))

\* the tallies of the question types the game modes pass, worked out once
Tallies == [q_type \in QuestionKinds \cup {"timed_challenge"} |-> Tally(q_type)]

\* the tally an answer is added to
AnswerTally(is_correct, q_type) ==
    IF ~is_correct THEN "other"
    ELSE IF q_type \in DOMAIN Tallies THEN Tallies[q_type]
    ELSE Tally(q_type)

\* update_player_stats, the statistics up to the level, for an answer that
\* goes to tally
CountAnswer(stats, is_correct, quick, tally, score_earned) ==
    [stats EXCEPT
        !.total_score = @ + score_earned,
        !.total_correct = IF is_correct THEN @ + 1 ELSE @,
        !.current_streak = IF is_correct THEN @ + 1 ELSE 0,
        !.max_streak = IF is_correct THEN Max(@, stats.current_streak + 1) ELSE @,
        !.quick_answers = IF is_correct /\ quick THEN @ + 1 ELSE @,
        !.asymptotes_correct = IF tally = "asymptote" THEN @ + 1 ELSE @,
        !.intercepts_correct = IF tally = "intercept" THEN @ + 1 ELSE @,
        !.holes_correct = IF tally = "hole" THEN @ + 1 ELSE @,
        !.current_level = CalculateLevelFromScore(stats.total_score + score_earned)]

\* check_achievements: whether key is among the new achievements
Achieved(stats, key) ==
    IF key = "level_up" THEN stats.current_level > stats.max_earned_level
    ELSE /\ ~InList(key, stats.earned_achievements)
         /\ CASE key = "first_correct" -> stats.total_correct = 1
              [] key = "speed_demon" -> stats.quick_answers >= 5
              [] key = "perfectionist" -> stats.max_streak >= 10
              [] key = "asymptote_master" -> stats.asymptotes_correct >= 20
              [] key = "intercept_hunter" -> stats.intercepts_correct >= 15
              [] key = "hole_finder" -> stats.holes_correct >= 10

\* check_achievements: the new achievements
CheckAchievements(stats) == SelectSeq(AchievementKeys, LAMBDA key : Achieved(stats, key))

\* award_achievement for each of the keys: one that the session does not hold
\* yet is added to its achievements and its points go to current_score
AwardAchievements(ss, keys) ==
    [ss EXCEPT !.achievements = @ \o keys, !.current_score = @ + AchievementPoints(keys)]

\* the end of update_player_stats: each new achievement that the player had
\* not earned, earned, is added to earned_achievements and awarded
EarnAchievements(ss, name, stats, earned) ==
    AwardAchievements(
        [ss EXCEPT !.player_stats =
                       [n \in DOMAIN ss.player_stats \cup {name} |->
                          IF n = name
                          THEN [stats EXCEPT !.max_earned_level = Max(@, stats.current_level),
                                             !.earned_achievements = @ \o earned]
                          ELSE ss.player_stats[n]],
                   !.stats_updates = @ + 1],
        SelectSeq(earned, LAMBDA key : ~InList(key, ss.achievements)))

\* update_player_stats from check_achievements on, stats being the player's
\* statistics with the answer counted
CheckAndEarn(ss, name, stats) ==
    EarnAchievements(ss, name, stats,
                     SelectSeq(CheckAchievements(stats),
                               LAMBDA key : ~InList(key, stats.earned_achievements)))

\* the statistics of a player, those of a new player for a new name
StatsOf(ss, name) ==
    IF name \in DOMAIN ss.player_stats THEN ss.player_stats[name] ELSE NewPlayerStats

\* update_player_stats(player_name, is_correct, ..., time_taken, question_type,
\* score_earned) on the session ss, quick being time_taken < 5 and q_type
\* the question_type
UpdatePlayerStats(ss, name, is_correct, quick, q_type, score_earned) ==
    CheckAndEarn(ss, name, CountAnswer(StatsOf(ss, name), is_correct, quick,
                                       AnswerTally(is_correct, q_type), score_earned))

\* the fields of the session that update_player_stats works on
StatsSession ==
    [player_stats |-> player_stats, achievements |-> achievements,
     current_score |-> current_score, stats_updates |-> stats_updates]

\* (mutant) the time check is missing
ChallengeOver_IgnoresTime(elapsed_time, duration, current_question, questions) ==
    current_question >= Len(questions)

\* (mutant) the challenge is over only after the duration, not at it
ChallengeOver_StrictlyLate(elapsed_time, duration, current_question, questions) ==
    \/ duration - elapsed_time < 0
    \/ current_question >= Len(questions)

\* _run_active_challenge: remaining_time <= 0 or
\* timed_current_question >= len(timed_questions)
ChallengeOver(elapsed_time, duration, current_question, questions) ==
    \/ Max(0, duration - elapsed_time) <= 0
    \/ current_question >= Len(questions)

\* _end_challenge after update_player_stats has made the session updated:
\* the leaderboard, then current_score
PostChallenge(scores, updated) ==
    /\ timed_active' = FALSE
    /\ timed_finished' = TRUE
    /\ stats_updates' = updated.stats_updates
    /\ achievements' = updated.achievements
    /\ player_stats' = updated.player_stats
    /\ PostScore(LoadLeaderboard(leaderboard_file), player_name, Sum(scores),
                 "timed_" \o timed_mode)
    /\ current_score' = updated.current_score + Sum(scores)

\* _end_challenge with timed_scores = scores: the statistics with the
\* achievements they unlock, the leaderboard, then current_score
EndChallenge(scores) ==
    PostChallenge(scores, UpdatePlayerStats(StatsSession, player_name, TRUE,
                                            now - timed_start_time < 5, "timed_challenge",
                                            Sum(scores)))

mp_other == <<timed_mode, timed_active, timed_finished, timed_start_time, timed_questions,
              timed_current_question, timed_answers, timed_scores, stats_updates,
              achievements, player_stats, scored, manager_vars>>
mp_rest == <<mp_other, practice_vars>>

\* a name among names typed into the sidebar of the app
EnterNameOf(names) ==
    /\ ~mp_sleeping
    /\ player_name = ""
    /\ player_name' \in names
    /\ last_run' = "none"
    /\ UNCHANGED <<mp_room_id, mp_room_type, mp_players, mp_waiting_for_players, mp_active,
                   mp_finished, mp_current_question, mp_questions, mp_answers, mp_scores,
                   mp_start_time, mp_player_answered, mp_sleeping, mp_leaderboard_data,
                   game_before, now,
                   current_score, leaderboard_posts, leaderboard_file>>
    /\ UNCHANGED mp_rest
    /\ UNCHANGED generator_vars

EnterName == EnterNameOf(PlayerNames)

\* the Change Player button of the sidebar: the run ends in st.rerun()
\* before a page is reached, and no page runs while there is no name
ChangePlayer ==
    /\ ~mp_sleeping
    /\ player_name # ""
    /\ player_name' = ""
    /\ current_score' = 0
    /\ last_run' = "none"
    /\ practice_screen' = IF practice_screen = "closed" THEN "closed" ELSE "rerun"
    /\ UNCHANGED <<mp_room_id, mp_room_type, mp_players, mp_waiting_for_players, mp_active,
                   mp_finished, mp_current_question, mp_questions, mp_answers, mp_scores,
                   mp_start_time, mp_player_answered, mp_sleeping, mp_leaderboard_data,
                   game_before, now,
                   leaderboard_posts, leaderboard_file>>
    /\ UNCHANGED mp_other
    /\ UNCHANGED practice_keys
    /\ UNCHANGED generator_vars

\* time passes while a challenge is active
Tick ==
    /\ timed_active
    /\ now < MaxClock
    /\ now' = now + 1
    /\ last_run' = "none"
    /\ UNCHANGED <<timed_mode, timed_active, timed_finished, timed_start_time, timed_questions,
                   timed_current_question, timed_answers, timed_scores, current_score,
                   stats_updates, achievements, player_stats, leaderboard_posts, game_before>>
    /\ UNCHANGED generator_vars
    /\ UNCHANGED extra_vars

\* the games of the session so far: those whose result is posted, the
\* active challenge and the room entered
GamesStarted ==
    Len(leaderboard_posts) + (IF timed_active THEN 1 ELSE 0)
        + (IF mp_room_id # "None" /\ ~mp_finished THEN 1 ELSE 0)

\* the sessions explored: MaxGames games at most
MayStart == GamesStarted < MaxGames

\* a Start button of _show_challenge_selection: _start_challenge(challenge_type)
StartChallenge ==
    /\ ~mp_sleeping
    /\ player_name # ""
    /\ ~timed_active /\ ~timed_finished
    /\ MayStart
    /\ GameStarts("timed")
    /\ \E challenge_type \in ChallengeTypes :
            /\ timed_mode' = challenge_type
            /\ timed_questions' \in GeneratedQuestions(challenge_type)
    /\ timed_active' = TRUE
    /\ timed_start_time' = now
    /\ timed_current_question' = 0
    /\ timed_answers' = <<>>
    /\ timed_scores' = <<>>
    /\ timed_finished' = FALSE
    /\ last_run' = "none"
    /\ UNCHANGED <<now, current_score, stats_updates, achievements, player_stats,
                   leaderboard_posts>>
    /\ UNCHANGED generator_vars
    /\ UNCHANGED extra_vars

\* a script run of the active screen with no answer submitted
\* (_run_active_challenge up to its st.rerun())
RerunActive ==
    /\ ~mp_sleeping
    /\ player_name # ""
    /\ timed_active
    /\ IF ChallengeOver(now - timed_start_time, challenge_configs[timed_mode].duration,
                        timed_current_question, timed_questions)
       THEN EndChallenge(timed_scores)
       ELSE UNCHANGED <<timed_active, timed_finished, current_score, stats_updates,
                        achievements, player_stats, leaderboard_posts, leaderboard_file>>
    /\ last_run' = "rerun"
    /\ UNCHANGED <<now, timed_mode, timed_start_time, timed_questions, timed_current_question,
                   timed_answers, timed_scores, game_before>>
    /\ UNCHANGED generator_vars
    /\ UNCHANGED game_rest

\* a script run of the active screen caused by Submit Answer: the time check
\* comes first, then _process_answer for the selected answer, which is the
\* correct one or not as corrects allows
SubmitAnswerOf(corrects) ==
    /\ ~mp_sleeping
    /\ player_name # ""
    /\ timed_active
    /\ \E is_correct \in corrects :
        IF ChallengeOver(now - timed_start_time, challenge_configs[timed_mode].duration,
                         timed_current_question, timed_questions)
        THEN /\ EndChallenge(timed_scores)
             /\ UNCHANGED <<timed_current_question, timed_answers, timed_scores>>
        ELSE LET level == timed_questions[timed_current_question + 1]
                 time_taken == TimeTaken(now - timed_start_time, timed_current_question)
                 score == CalculateScore(is_correct, level, time_taken,
                                         CurrentStreak(timed_answers, is_correct))
             IN /\ timed_answers' =
                        Append(timed_answers, [question_index |-> timed_current_question,
                                               correct |-> is_correct,
                                               score |-> score])
                /\ timed_scores' = Append(timed_scores, score)
                /\ timed_current_question' = timed_current_question + 1
                /\ IF timed_current_question' >= Len(timed_questions)
                   THEN EndChallenge(timed_scores')
                   ELSE UNCHANGED <<timed_active, timed_finished, current_score,
                                    stats_updates, achievements, player_stats,
                                    leaderboard_posts, leaderboard_file>>
    /\ last_run' = "submit"
    /\ UNCHANGED <<now, timed_mode, timed_start_time, timed_questions, game_before>>
    /\ UNCHANGED generator_vars
    /\ UNCHANGED game_rest

SubmitAnswer == SubmitAnswerOf(BOOLEAN)

\* the session before the timed challenge page is opened
InitC == Init /\ sympy_float_eq

NextC == EnterName \/ Tick \/ StartChallenge \/ RerunActive \/ SubmitAnswer

SpecC == InitC /\ [][NextC]_vars

\* A blitz challenge that has just been started, all its questions of
\* difficulty 1, with time passing and the active screen rerunning itself
\* (time.sleep(0.1); st.rerun()) as long as the challenge is active.
InitL ==
    /\ sympy_float_eq = TRUE
    /\ GeneratorInit
    /\ scored = NoScore
    /\ PracticeInit
    /\ MpInit
    /\ LeaderboardInit
    /\ managers = [i \in Instances |-> NoManager]
    /\ saving = [i \in Instances |-> "no"]
    /\ last_call = NoCall
    /\ player_name \in PlayerNames
    /\ game_before = [NoGame EXCEPT !.timed = [valid |-> TRUE, posts |-> 0]]
    /\ now = 0
    /\ last_run = "none"
    /\ timed_mode \in ChallengeTypes
    /\ timed_active = TRUE
    /\ timed_finished = FALSE
    /\ timed_start_time = 0
    /\ timed_questions = [k \in 1..challenge_configs[timed_mode].questions |-> 1]
    /\ timed_current_question = 0
    /\ timed_answers = <<>>
    /\ timed_scores = <<>>
    /\ current_score = 0
    /\ stats_updates = 0
    /\ achievements = <<>>
    /\ player_stats = NoPlayerStats
    /\ leaderboard_posts = <<>>

NextL == Tick \/ RerunActive \/ SubmitAnswer

SpecL == InitL /\ [][NextL]_vars /\ WF_vars(Tick) /\ WF_vars(RerunActive)

(***************************************************************************)
(* ScoringSystem.calculate_score on its own, for any difficulty (known or  *)
(* not), times around the 5 second limit and streaks up to MaxStreak.      *)
(***************************************************************************)
ScoredDifficulties == 0..6
ScoredTimes == {[p |-> p, q |-> q] : p \in 0..11, q \in {1, 2}}

\* one call self.scoring_system.calculate_score(...), recorded in scored
CalculateScoreCall ==
    /\ ~scored.called
    /\ \E is_correct \in BOOLEAN, level \in ScoredDifficulties,
          time_taken \in ScoredTimes, current_streak \in 0..MaxStreak :
            scored' = [called |-> TRUE,
                       is_correct |-> is_correct,
                       difficulty_level |-> level,
                       time_taken |-> time_taken,
                       current_streak |-> current_streak,
                       score |-> CalculateScore(is_correct, level, time_taken,
                                                current_streak)]
    /\ UNCHANGED generator_vars
    /\ UNCHANGED timed_vars
    /\ UNCHANGED practice_vars
    /\ UNCHANGED mp_vars
    /\ UNCHANGED lb_vars

NextK == CalculateScoreCall

SpecK == InitC /\ [][NextK]_vars

(***************************************************************************)
(* Practice mode (PracticeMode).  A step is one script run of the app with *)
(* the practice page chosen: a run with no button pressed, or the run a    *)
(* button press triggers.  A run that ends in st.rerun() leaves the page   *)
(* due to run again, and what reaches the session before that run (the     *)
(* difficulty selectbox, Change Player, a navigation button) finds the     *)
(* session as the first run left it.  The session fields the page works on *)
(* are gathered in a record ss.                                            *)
(***************************************************************************)
PracticeTimes == {[p |-> 2, q |-> 1], [p |-> 7, q |-> 1]}

PracticeSession ==
    [question |-> practice_question,
     answer_submitted |-> practice_answer_submitted,
     streak |-> practice_streak,
     questions_answered |-> practice_questions_answered,
     difficulty_level |-> difficulty_level,
     current_score |-> current_score,
     stats_updates |-> stats_updates,
     achievements |-> achievements,
     player_stats |-> player_stats]

\* the levels of the sidebar's difficulty selectbox
PracticeDifficulties == 1..Min(5, MaxDifficulty + 1)

\* what the sidebar of the practice page holds: the difficulty and the
\* question type _generate_new_question settles on for "Focus on"
PracticeChoices ==
    [difficulty : PracticeDifficulties, question_type : QuestionKinds]

\* the sidebar of a run in which the difficulty selectbox was not touched
SidebarAsIs == {sidebar \in PracticeChoices : sidebar.difficulty = difficulty_level}

\* run: the difficulty selectbox; a value other than difficulty_level is
\* stored and drops the question
SelectDifficulty(ss, selected) ==
    IF selected # ss.difficulty_level
    THEN [ss EXCEPT !.difficulty_level = selected, !.question = NoPracticeQuestion]
    ELSE ss

\* _generate_new_question(difficulty, selected_type)
GenerateNewQuestion(ss, sidebar) ==
    [ss EXCEPT !.question = [present |-> TRUE, difficulty |-> sidebar.difficulty,
                             question_type |-> sidebar.question_type],
               !.answer_submitted = FALSE]

\* (mutant) the results screen only displays, it counts nothing
DisplayResults_CountsNothing(ss, is_correct, time_taken) == ss

\* _display_results with the score worked out: the counters, the score, the
\* stats
CountResult(ss, is_correct, time_taken, score) ==
    UpdatePlayerStats([ss EXCEPT !.questions_answered = @ + 1,
                                 !.streak = IF is_correct THEN @ + 1 ELSE 0,
                                 !.current_score = @ + score],
                      player_name, is_correct, time_taken.p < 5 * time_taken.q,
                      ss.question.question_type, score)

\* _display_results up to its buttons
DisplayResults(ss, is_correct, time_taken) ==
    CountResult(ss, is_correct, time_taken,
                CalculateScore(is_correct, ss.question.difficulty, time_taken, ss.streak + 1))

\* run from the main area on, no button pressed: the question is generated
\* when there is none, and the results are displayed when an answer is
\* submitted
ShowPage(ss, sidebar, is_correct, time_taken) ==
    LET shown == IF ~ss.question.present THEN GenerateNewQuestion(ss, sidebar) ELSE ss
    IN IF shown.answer_submitted THEN DisplayResults(shown, is_correct, time_taken)
       ELSE shown

\* PracticeMode.run with no button pressed, to the end of the script
PracticeRun(ss, sidebar, is_correct, time_taken) ==
    ShowPage(SelectDifficulty(ss, sidebar.difficulty), sidebar, is_correct, time_taken)

\* the session fields after a run
PracticeBecomes(ss) ==
    /\ practice_question' = ss.question
    /\ practice_answer_submitted' = ss.answer_submitted
    /\ practice_streak' = ss.streak
    /\ practice_questions_answered' = ss.questions_answered
    /\ difficulty_level' = ss.difficulty_level
    /\ current_score' = ss.current_score
    /\ stats_updates' = ss.stats_updates
    /\ achievements' = ss.achievements
    /\ player_stats' = ss.player_stats

PracticeEvent ==
    /\ practice_events < MaxPracticeEvents
    /\ practice_events' = practice_events + 1

practice_rest == <<now, last_run, timed_mode, timed_active, timed_finished, timed_start_time,
                   timed_questions, timed_current_question, timed_answers, timed_scores,
                   scored, game_before, mp_vars, manager_vars>>

\* a Practice Mode button (sidebar, home screen): game_mode = "practice" and
\* st.rerun()
PracticeOpen ==
    /\ player_name # ""
    /\ practice_screen = "closed"
    /\ practice_screen' = "rerun"
    /\ UNCHANGED <<current_score, stats_updates, achievements, player_stats,
                   leaderboard_posts, leaderboard_file>>
    /\ UNCHANGED practice_keys
    /\ UNCHANGED practice_rest
    /\ UNCHANGED generator_vars

\* a navigation button of the sidebar to another page: game_mode changes and
\* the run ends in st.rerun() before the practice page is reached
PracticeLeave ==
    /\ player_name # ""
    /\ practice_screen # "closed"
    /\ practice_screen' = "closed"
    /\ UNCHANGED <<current_score, stats_updates, achievements, player_stats,
                   leaderboard_posts, leaderboard_file>>
    /\ UNCHANGED practice_keys
    /\ UNCHANGED practice_rest
    /\ UNCHANGED generator_vars

\* a script run of the practice page with no button pressed: the rerun that
\* st.rerun() asked for, a sidebar widget changed, a browser refresh
PracticeRerun ==
    /\ PracticeEvent
    /\ player_name # ""
    /\ practice_screen # "closed"
    /\ \E time_taken \in PracticeTimes, sidebar \in PracticeChoices :
            PracticeBecomes(PracticeRun(PracticeSession, sidebar, practice_user_correct, time_taken))
    /\ practice_screen' = IF practice_answer_submitted' THEN "results" ELSE "question"
    /\ UNCHANGED <<practice_user_correct, practice_before, leaderboard_posts, leaderboard_file>>
    /\ UNCHANGED practice_rest
    /\ UNCHANGED generator_vars

\* Submit Answer on the question form: _handle_answer_input stores the
\* answer, sets practice_answer_submitted and ends the run in st.rerun()
PracticeSubmit ==
    /\ PracticeEvent
    /\ player_name # ""
    /\ practice_screen = "question"
    /\ \E is_correct \in BOOLEAN :
            /\ practice_user_correct' = is_correct
            /\ practice_before' = [valid |-> TRUE,
                                   answered |-> practice_questions_answered,
                                   streak |-> practice_streak,
                                   stats |-> stats_updates,
                                   correct |-> is_correct]
    /\ practice_answer_submitted' = TRUE
    /\ practice_screen' = "rerun"
    /\ UNCHANGED <<practice_question, practice_streak, practice_questions_answered,
                   difficulty_level, current_score, stats_updates, achievements, player_stats,
                   leaderboard_posts, leaderboard_file>>
    /\ UNCHANGED practice_rest
    /\ UNCHANGED generator_vars

\* Next Question on the results screen: the run the press triggers goes
\* through _display_results to reach the button, clears the question and
\* ends in st.rerun()
PracticeNext ==
    /\ PracticeEvent
    /\ player_name # ""
    /\ practice_screen = "results"
    /\ \E time_taken \in PracticeTimes, sidebar \in SidebarAsIs :
        PracticeBecomes([PracticeRun(PracticeSession, sidebar, practice_user_correct, time_taken)
                            EXCEPT !.question = NoPracticeQuestion, !.answer_submitted = FALSE])
    /\ practice_screen' = "rerun"
    /\ UNCHANGED <<practice_user_correct, practice_before, leaderboard_posts, leaderboard_file>>
    /\ UNCHANGED practice_rest
    /\ UNCHANGED generator_vars

\* Back to Home on the results screen: the run goes through
\* _display_results, posts current_score to the leaderboard, sets game_mode
\* to "home" and ends in st.rerun()
PracticeHome ==
    /\ PracticeEvent
    /\ player_name # ""
    /\ practice_screen = "results"
    /\ \E time_taken \in PracticeTimes, sidebar \in SidebarAsIs :
        /\ PracticeBecomes(PracticeRun(PracticeSession, sidebar, practice_user_correct, time_taken))
        /\ PostScore(LoadLeaderboard(leaderboard_file), player_name, current_score', "practice")
    /\ practice_screen' = "closed"
    /\ UNCHANGED <<practice_user_correct, practice_before>>
    /\ UNCHANGED practice_rest
    /\ UNCHANGED generator_vars

\* Reset Practice Stats in the sidebar, in any run of the practice page: the
\* counters and the question are cleared and the run ends in st.rerun()
\* before the main area is reached
PracticeReset ==
    /\ PracticeEvent
    /\ player_name # ""
    /\ practice_screen # "closed"
    /\ practice_questions_answered' = 0
    /\ practice_streak' = 0
    /\ practice_question' = NoPracticeQuestion
    /\ practice_screen' = "rerun"
    /\ practice_before' = NoSubmission
    /\ UNCHANGED <<practice_answer_submitted, practice_user_correct, difficulty_level,
                   current_score, stats_updates, achievements, player_stats,
                   leaderboard_posts, leaderboard_file>>
    /\ UNCHANGED practice_rest
    /\ UNCHANGED generator_vars

\* the name the practice sessions are played under
EnterPracticeName == EnterNameOf({"Player"})

NextPr ==
    \/ EnterPracticeName \/ ChangePlayer \/ PracticeOpen \/ PracticeLeave
    \/ PracticeRerun \/ PracticeSubmit \/ PracticeNext \/ PracticeHome \/ PracticeReset

SpecPr == InitC /\ [][NextPr]_vars

(***************************************************************************)
(* Multiplayer quiz (MultiplayerQuiz).  A step is one script run of the    *)
(* page; a run that ends in st.rerun() is followed by a run with no button *)
(* pressed.  The quiz is explored with the first MaxRoomQuestions          *)
(* questions of a room and the clock in steps of QuestionSeconds.          *)
(***************************************************************************)
room_configs ==
    [quick    |-> [duration |-> 120, questions |-> 8],
     standard |-> [duration |-> 300, questions |-> 15],
     expert   |-> [duration |-> 600, questions |-> 20]]

QuestionSeconds == 30

\* the rooms whose time can run out on the explored clock
RoomTypes ==
    {t \in DOMAIN room_configs : room_configs[t].duration <= QuestionSeconds * MaxQuizTicks}

\* _join_room: mock_rooms
mock_rooms ==
    [ROOM1234 |-> [type |-> "standard", players |-> <<"Alice", "Bob">>],
     ROOM5678 |-> [type |-> "quick", players |-> <<"Charlie">>],
     ROOM9999 |-> [type |-> "expert", players |-> <<"Expert1", "Expert2", "Expert3">>]]

RoomIds == DOMAIN mock_rooms \cup {"ROOM0000"}
ai_names == <<"MathBot", "GraphGuru", "AsymptoteAce", "FunctionFinder">>

Range(f) == {f[x] : x \in DOMAIN f}

\* the session's mp_ keys as a record
MpSession ==
    [room_id |-> mp_room_id, room_type |-> mp_room_type, players |-> mp_players,
     current_question |-> mp_current_question, questions |-> mp_questions,
     answers |-> mp_answers, scores |-> mp_scores, start_time |-> mp_start_time,
     active |-> mp_active, finished |-> mp_finished,
     player_answered |-> mp_player_answered,
     waiting_for_players |-> mp_waiting_for_players]

\* random.randint(lo, hi) of _generate_quiz_questions, levels up to
\* MaxDifficulty explored
DifficultyDraws(lo, hi) == lo..Max(lo, Min(hi, MaxDifficulty))

\* _generate_quiz_questions(num_questions): the lists of difficulties
GenerateQuizQuestions(num_questions) ==
    LET n == Min(num_questions, MaxRoomQuestions)
        draws(i) == IF i < num_questions \div 3 THEN DifficultyDraws(1, 2)
                    ELSE IF i < (2 * num_questions) \div 3 THEN DifficultyDraws(2, 4)
                    ELSE DifficultyDraws(3, 5)
    IN {q \in [1..n -> 1..5] : \A k \in 1..n : q[k] \in draws(k - 1)}

\* _create_room(room_type) with the questions drawn
CreateRoomWith(ms, name, room_type, questions) ==
    [ms EXCEPT !.room_id = "ROOM4321",
               !.room_type = room_type,
               !.players = <<name>>,
               !.waiting_for_players = TRUE,
               !.questions = questions]

\* _join_room(room_id) with the questions drawn; questions is only used
\* when the room is joined
JoinRoomWith(ms, name, room_id, questions) ==
    IF room_id \in DOMAIN mock_rooms /\ name \notin Range(mock_rooms[room_id].players)
    THEN [ms EXCEPT !.room_id = room_id,
                    !.room_type = mock_rooms[room_id].type,
                    !.players = Append(mock_rooms[room_id].players, name),
                    !.waiting_for_players = TRUE,
                    !.questions = questions]
    ELSE ms

\* _add_ai_players with the names drawn, in the order drawn
RECURSIVE AddAiPlayers(_, _)
AddAiPlayers(players, drawn_names) ==
    IF drawn_names = <<>> THEN players
    ELSE LET ai_name == Head(drawn_names)
         IN AddAiPlayers(IF Len(players) < 4 /\ ai_name \notin Range(players)
                         THEN Append(players, ai_name) ELSE players,
                         Tail(drawn_names))

\* the draws of _add_ai_players: random.randint(1, 3) names of ai_names,
\* the first MaxAiPlayers + 1 names explored
AiDraws ==
    LET names == {ai_names[i] : i \in 1..Min(Len(ai_names), MaxAiPlayers + 1)}
    IN UNION {[1..num_ai -> names] : num_ai \in 1..Min(3, MaxAiPlayers)}

\* _start_multiplayer_quiz at time t
StartMultiplayerQuiz(ms, t) ==
    [ms EXCEPT !.waiting_for_players = FALSE,
               !.active = TRUE,
               !.start_time = t,
               !.current_question = 0,
               !.player_answered = FALSE,
               !.scores = [player \in Range(ms.players) |-> 0],
               !.answers = [player \in Range(ms.players) |-> <<>>]]

\* mp_answers.get(player, [])
AnswersOf(ms, player) == IF player \in DOMAIN ms.answers THEN ms.answers[player] ELSE <<>>

\* any(ans['question_number'] == mp_current_question for ans in player_answers)
AlreadyAnswered(ms, player) ==
    \E i \in 1..Len(AnswersOf(ms, player)) :
        AnswersOf(ms, player)[i].question_number = ms.current_question

\* len([ans for ans in player_answers if ans['correct']])
CorrectSoFar(player_answers) ==
    Cardinality({i \in 1..Len(player_answers) : player_answers[i].correct})

\* the answer of one player stored: mp_answers[player].append, mp_scores[player] +=
StoreAnswer(ms, player, is_correct, time_taken) ==
    LET current_streak == CorrectSoFar(AnswersOf(ms, player))
        score == IF is_correct
                 THEN CalculateScore(is_correct, ms.questions[ms.current_question + 1],
                                     time_taken, current_streak)
                 ELSE 0
        answer_data == [question_number |-> ms.current_question,
                        correct |-> is_correct,
                        score |-> score]
    IN [ms EXCEPT !.answers[player] = Append(@, answer_data),
                  !.scores[player] = @ + score]

\* _submit_multiplayer_answer at time t; mp_answers[player_name] raises
\* KeyError for a name that is not a player of the quiz, before anything is
\* stored
SubmitMultiplayerAnswer(ms, name, is_correct, t) ==
    LET question_start_time == ms.start_time + ms.current_question * QuestionSeconds
        time_taken == [p |-> Max(1, t - question_start_time), q |-> 1]
    IN IF name \in DOMAIN ms.answers
       THEN [StoreAnswer(ms, name, is_correct, time_taken) EXCEPT !.player_answered = TRUE]
       ELSE ms

\* what one AI player does in one run: nothing, or an answer after ai_time
\* seconds (random.uniform(3, 15))
AiOutcomes ==
    {[answers |-> FALSE, correct |-> FALSE, ai_time |-> 0]}
    \cup {[answers |-> TRUE, correct |-> c, ai_time |-> t] : c \in BOOLEAN, t \in {4, 12}}

\* _simulate_ai_answers, the players taken from index i on, ai[player] the
\* draw for each
RECURSIVE SimulateAiAnswersFrom(_, _, _, _)
SimulateAiAnswersFrom(ms, name, ai, i) ==
    IF i > Len(ms.players) THEN ms
    ELSE LET player == ms.players[i]
             after == IF player # name /\ ~AlreadyAnswered(ms, player) /\ ai[player].answers
                      THEN StoreAnswer(ms, player, ai[player].correct,
                                       [p |-> ai[player].ai_time, q |-> 1])
                      ELSE ms
         IN SimulateAiAnswersFrom(after, name, ai, i + 1)

SimulateAiAnswers(ms, name, ai) == SimulateAiAnswersFrom(ms, name, ai, 1)

\* _check_all_players_answered
CheckAllPlayersAnswered(ms) == \A player \in Range(ms.players) : AlreadyAnswered(ms, player)

\* _run_active_quiz: remaining_time <= 0 or mp_current_question >= len(mp_questions)
QuizOver(ms, t) ==
    \/ Max(0, room_configs[ms.room_type].duration - (t - ms.start_time)) <= 0
    \/ ms.current_question >= Len(ms.questions)

\* (mutant) the quiz stays active when it ends
EndMultiplayerQuiz_StaysActive(ms) == [ms EXCEPT !.finished = TRUE]

\* _end_multiplayer_quiz: the mp_ keys
EndMultiplayerQuiz(ms) == [ms EXCEPT !.active = FALSE, !.finished = TRUE]

\* mp_scores.get(player_name, 0)
PlayerTotalScore(ms, name) == IF name \in DOMAIN ms.scores THEN ms.scores[name] ELSE 0

\* _end_multiplayer_quiz: current_score and the leaderboard
PostQuiz(leaderboard_data, ms, name) ==
    /\ current_score' = current_score + PlayerTotalScore(ms, name)
    /\ PostScore(leaderboard_data, name, PlayerTotalScore(ms, name),
                 "multiplayer_" \o ms.room_type)

\* _advance_to_next_question up to its _end_multiplayer_quiz or st.rerun()
AdvanceToNextQuestion(ms) ==
    [ms EXCEPT !.current_question = @ + 1, !.player_answered = FALSE]

\* a Create ... Room button of _show_room_selection
CreateRoom ==
    /\ ~mp_sleeping
    /\ player_name # "" /\ mp_room_id = "None"
    /\ MayStart
    /\ \E room_type \in RoomTypes :
        \E questions \in GenerateQuizQuestions(room_configs[room_type].questions) :
            MpBecomes(CreateRoomWith(MpSession, player_name, room_type, questions))
    /\ mp_sleeping' = FALSE
    /\ mp_leaderboard_data' = EmptyDict
    /\ last_run' = "none"
    /\ UNCHANGED <<player_name, game_before, now, current_score, leaderboard_posts,
                   leaderboard_file>>
    /\ UNCHANGED mp_rest
    /\ UNCHANGED generator_vars

\* the Join Room button of _show_room_selection with a room id typed in
JoinRoom ==
    /\ ~mp_sleeping
    /\ player_name # "" /\ mp_room_id = "None"
    /\ MayStart
    /\ \E room_id \in RoomIds :
        LET num_questions == IF room_id \in DOMAIN mock_rooms
                             THEN room_configs[mock_rooms[room_id].type].questions ELSE 0
        IN \E questions \in GenerateQuizQuestions(num_questions) :
                MpBecomes(JoinRoomWith(MpSession, player_name, room_id, questions))
    /\ mp_sleeping' = FALSE
    /\ mp_leaderboard_data' = EmptyDict
    /\ last_run' = "none"
    /\ UNCHANGED <<player_name, game_before, now, current_score, leaderboard_posts,
                   leaderboard_file>>
    /\ UNCHANGED mp_rest
    /\ UNCHANGED generator_vars

\* a run of _show_waiting_room with no button pressed (it reruns itself
\* every second)
RerunWaitingRoom ==
    /\ ~mp_sleeping
    /\ player_name # ""
    /\ mp_room_id # "None" /\ mp_waiting_for_players
    /\ last_run' = "none"
    /\ UNCHANGED <<game_before, now, current_score, leaderboard_posts, leaderboard_file>>
    /\ UNCHANGED mp_vars
    /\ UNCHANGED mp_rest
    /\ UNCHANGED generator_vars

\* the start button the waiting room offers to mp_players[0]: Start Quiz
\* when there are two players or more, Start with AI Players otherwise
StartFromWaitingRoom ==
    /\ ~mp_sleeping
    /\ player_name # ""
    /\ mp_room_id # "None" /\ mp_waiting_for_players
    /\ mp_players[1] = player_name
    /\ IF Len(mp_players) >= 2
       THEN MpBecomes(StartMultiplayerQuiz(MpSession, now))
       ELSE \E drawn_names \in AiDraws :
                MpBecomes(StartMultiplayerQuiz(
                    [MpSession EXCEPT !.players = AddAiPlayers(mp_players, drawn_names)], now))
    /\ mp_sleeping' = FALSE
    /\ mp_leaderboard_data' = EmptyDict
    /\ GameStarts("multiplayer")
    /\ last_run' = "none"
    /\ UNCHANGED <<player_name, now, current_score, leaderboard_posts, leaderboard_file>>
    /\ UNCHANGED mp_rest
    /\ UNCHANGED generator_vars

\* time passes while a quiz is active
QuizTick ==
    /\ mp_active
    /\ now - mp_start_time < QuestionSeconds * MaxQuizTicks
    /\ now' = now + QuestionSeconds
    /\ last_run' = "none"
    /\ UNCHANGED <<game_before, current_score, leaderboard_posts, leaderboard_file>>
    /\ UNCHANGED mp_vars
    /\ UNCHANGED mp_rest
    /\ UNCHANGED generator_vars

\* a run of _run_active_quiz with no answer submitted, up to its end or to
\* the time.sleep(2) of line 345: the time check; mp_answers[player_name]
\* of line 321, which raises KeyError and ends the run when the answered
\* player's name is not a key of mp_answers; then the AI players answer,
\* and the run sleeps when everybody has answered; outcomes is what an AI
\* player can do in the run
RerunActiveQuizOf(outcomes) ==
    /\ ~mp_sleeping
    /\ player_name # ""
    /\ mp_room_id # "None" /\ ~mp_waiting_for_players /\ mp_active
    /\ IF QuizOver(MpSession, now)
       THEN /\ MpBecomes(EndMultiplayerQuiz(MpSession))
            /\ PostQuiz(LoadLeaderboard(leaderboard_file), MpSession, player_name)
            /\ mp_sleeping' = FALSE
            /\ mp_leaderboard_data' = EmptyDict
       ELSE IF mp_player_answered /\ player_name \notin DOMAIN mp_answers
       THEN /\ MpBecomes(MpSession)
            /\ mp_sleeping' = FALSE
            /\ mp_leaderboard_data' = EmptyDict
            /\ UNCHANGED <<current_score, leaderboard_posts, leaderboard_file>>
       ELSE /\ \E ai \in [Range(mp_players) \ {player_name} -> outcomes] :
                    LET simulated == SimulateAiAnswers(MpSession, player_name, ai)
                    IN /\ MpBecomes(simulated)
                       /\ mp_sleeping' = CheckAllPlayersAnswered(simulated)
                       /\ mp_leaderboard_data' = IF CheckAllPlayersAnswered(simulated)
                                                 THEN LoadLeaderboard(leaderboard_file)
                                                 ELSE EmptyDict
            /\ UNCHANGED <<current_score, leaderboard_posts, leaderboard_file>>
    /\ last_run' = "none"
    /\ UNCHANGED <<player_name, game_before, now>>
    /\ UNCHANGED mp_rest
    /\ UNCHANGED generator_vars

RerunActiveQuiz == RerunActiveQuizOf(AiOutcomes)

\* the same run after its time.sleep(2): _advance_to_next_question, which
\* ends the quiz after the last question
AdvanceAfterSleep ==
    /\ mp_sleeping
    /\ LET advanced == AdvanceToNextQuestion(MpSession)
       IN IF advanced.current_question >= Len(advanced.questions)
          THEN /\ MpBecomes(EndMultiplayerQuiz(advanced))
               /\ PostQuiz(mp_leaderboard_data, advanced, player_name)
          ELSE /\ MpBecomes(advanced)
               /\ UNCHANGED <<current_score, leaderboard_posts, leaderboard_file>>
    /\ mp_sleeping' = FALSE
    /\ mp_leaderboard_data' = EmptyDict
    /\ last_run' = "none"
    /\ UNCHANGED <<player_name, game_before, now>>
    /\ UNCHANGED mp_rest
    /\ UNCHANGED generator_vars

\* a run of _run_active_quiz caused by Submit Answer on the form, which is
\* shown while mp_player_answered is False: the time check comes first,
\* _submit_multiplayer_answer ends the run with st.rerun()
SubmitQuizAnswerOf(corrects) ==
    /\ ~mp_sleeping
    /\ player_name # ""
    /\ mp_room_id # "None" /\ ~mp_waiting_for_players /\ mp_active
    /\ ~mp_player_answered
    /\ IF QuizOver(MpSession, now)
       THEN /\ MpBecomes(EndMultiplayerQuiz(MpSession))
            /\ PostQuiz(LoadLeaderboard(leaderboard_file), MpSession, player_name)
       ELSE /\ \E is_correct \in corrects :
                    MpBecomes(SubmitMultiplayerAnswer(MpSession, player_name, is_correct, now))
            /\ UNCHANGED <<current_score, leaderboard_posts, leaderboard_file>>
    /\ mp_sleeping' = FALSE
    /\ mp_leaderboard_data' = EmptyDict
    /\ last_run' = "none"
    /\ UNCHANGED <<player_name, game_before, now>>
    /\ UNCHANGED mp_rest
    /\ UNCHANGED generator_vars

SubmitQuizAnswer == SubmitQuizAnswerOf(BOOLEAN)

\* Play Again on the results screen: _reset_multiplayer_state
PlayAgain ==
    /\ ~mp_sleeping
    /\ player_name # ""
    /\ mp_room_id # "None" /\ ~mp_waiting_for_players /\ ~mp_active /\ mp_finished
    /\ MpBecomes(MpDefaults)
    /\ mp_sleeping' = FALSE
    /\ mp_leaderboard_data' = EmptyDict
    /\ last_run' = "none"
    /\ UNCHANGED <<player_name, game_before, now, current_score, leaderboard_posts,
                   leaderboard_file>>
    /\ UNCHANGED mp_rest
    /\ UNCHANGED generator_vars

NextM ==
    \/ EnterName \/ CreateRoom \/ JoinRoom \/ RerunWaitingRoom \/ StartFromWaitingRoom
    \/ QuizTick \/ RerunActiveQuiz \/ AdvanceAfterSleep \/ SubmitQuizAnswer \/ PlayAgain

SpecM == InitC /\ [][NextM]_vars

\* the name typed into the sidebar, before the quiz or after Change Player:
\* "Player" or the name of the first AI player
EnterCoPlayerName == EnterNameOf({"Player", ai_names[1]})

\* one multiplayer quiz in a created room, with the player changed on the way
NextN ==
    \/ EnterCoPlayerName \/ ChangePlayer \/ CreateRoom \/ RerunWaitingRoom
    \/ StartFromWaitingRoom \/ QuizTick \/ RerunActiveQuiz \/ AdvanceAfterSleep
    \/ SubmitQuizAnswer

SpecN == InitC /\ [][NextN]_vars

\* the same with the player pressing the start button of the waiting room
\* when it is offered, and the waiting room and the active quiz rerun
SpecMFair ==
    /\ SpecM
    /\ WF_vars(StartFromWaitingRoom)
    /\ WF_vars(RerunWaitingRoom)
    /\ WF_vars(RerunActiveQuiz)
    /\ WF_vars(AdvanceAfterSleep)

(***************************************************************************)
(* The games of one session: timed challenges with Try Again and           *)
(* multiplayer quizzes with Play Again, started from either page in any    *)
(* order (a challenge can be started while a quiz is under way and the     *)
(* other way round), with Change Player between any two script runs,       *)
(* MaxGames games in all.                                                  *)
(***************************************************************************)
\* Try Again on the results screen of a timed challenge (_show_results)
TryAgain ==
    /\ ~mp_sleeping
    /\ player_name # ""
    /\ ~timed_active /\ timed_finished
    /\ timed_mode' = "None"
    /\ timed_finished' = FALSE
    /\ timed_questions' = <<>>
    /\ timed_answers' = <<>>
    /\ timed_scores' = <<>>
    /\ last_run' = "none"
    /\ UNCHANGED <<now, timed_active, timed_start_time, timed_current_question, current_score,
                   stats_updates, achievements, player_stats, leaderboard_posts, game_before>>
    /\ UNCHANGED generator_vars
    /\ UNCHANGED extra_vars

\* the time that passes between two script runs of a session of games: a
\* pause within a question or a pause as long as a quick room lasts
GameSeconds == {QuestionSeconds \div 2, room_configs.quick.duration}

\* time passes while a game is under way, whether or not the game has run
\* out of time, until the clock reads MaxClock
GameTick ==
    /\ timed_active \/ mp_active
    /\ now < MaxClock
    /\ \E seconds \in GameSeconds : now' = now + seconds
    /\ last_run' = "none"
    /\ UNCHANGED <<timed_mode, timed_active, timed_finished, timed_start_time, timed_questions,
                   timed_current_question, timed_answers, timed_scores, current_score,
                   stats_updates, achievements, player_stats, leaderboard_posts, game_before>>
    /\ UNCHANGED generator_vars
    /\ UNCHANGED extra_vars

\* the answers of the games of a session: right ones, and an AI player that
\* answers in a run or not
GameCorrects == {TRUE}
GameAiOutcomes == {ai \in AiOutcomes : ai.answers => ai.correct /\ ai.ai_time = 4}
SubmitGameAnswer == SubmitAnswerOf(GameCorrects)
RerunGameQuiz == RerunActiveQuizOf(GameAiOutcomes)
SubmitGameQuizAnswer == SubmitQuizAnswerOf(GameCorrects)

NextG ==
    \/ EnterCoPlayerName \/ ChangePlayer \/ GameTick
    \/ StartChallenge \/ RerunActive \/ SubmitGameAnswer \/ TryAgain
    \/ CreateRoom \/ JoinRoom \/ RerunWaitingRoom \/ StartFromWaitingRoom
    \/ RerunGameQuiz \/ AdvanceAfterSleep \/ SubmitGameQuizAnswer \/ PlayAgain

SpecG == InitC /\ [][NextG]_vars

(***************************************************************************)
(* The leaderboard (LeaderboardManager) on its own.  Every instance loads  *)
(* the file once, when it is constructed, and writes its whole             *)
(* leaderboard_data back after each change.  A save is two steps, the open *)
(* that truncates the file and the dump that fills it, and the other       *)
(* instance can load or save in between.                                   *)
(***************************************************************************)
\* the games posted: their score and level
GameDraws == {[score |-> 0, level |-> 1], [score |-> 120, level |-> 3],
              [score |-> 50, level |-> 2]}

lb_rest == <<now, last_run, timed_mode, timed_active, timed_finished, timed_start_time,
             timed_questions, timed_current_question, timed_answers, timed_scores,
             current_score, stats_updates, achievements, player_stats, leaderboard_posts,
             game_before, scored,
             practice_vars, mp_vars>>

\* LeaderboardManager(): instance i is constructed (again), between two of
\* its calls
NewManager ==
    /\ \E i \in Instances :
            /\ saving[i] = "no"
            /\ managers' = [managers EXCEPT ![i] =
                                [constructed |-> TRUE,
                                 leaderboard_data |-> LoadLeaderboard(leaderboard_file)]]
    /\ UNCHANGED <<leaderboard_file, saving, recorded, last_call, last_query>>
    /\ UNCHANGED lb_rest
    /\ UNCHANGED generator_vars

\* _save_leaderboard of instance i up to json.dump.  open(self.filename,
\* 'w') truncates the file, which is empty again for every instance that
\* has it open, and the dump is still to come.  On a disk that takes no
\* writes the open either succeeds all the same (only the writing fails
\* then) or raises; the exception is swallowed, the file is as it was and
\* the save is over.
OpenToSave(i) ==
    \/ /\ leaderboard_file' = [leaderboard_file EXCEPT !.exists = TRUE, !.parses = FALSE,
                                                        !.data = EmptyDict]
       /\ saving' = [j \in Instances |->
                        IF j = i THEN "opened"
                        ELSE IF saving[j] = "overwritten" THEN "opened" ELSE saving[j]]
    \/ /\ ~leaderboard_file.writable
       /\ UNCHANGED <<leaderboard_file, saving>>

\* update_player_score(player_name, score, level, game_mode) on instance i,
\* for a game among games, up to the json.dump of its _save_leaderboard
UpdatePlayerScoreOf(games) ==
    /\ last_call.number < MaxCalls
    /\ \E i \in Instances, name \in PlayerNames, game \in games :
        LET after == UpdatePlayerScoreIn(managers[i].leaderboard_data, name, game.score,
                                         game.level, "practice")
        IN /\ managers[i].constructed
           /\ saving[i] = "no"
           /\ managers' = [managers EXCEPT ![i].leaderboard_data = after]
           /\ OpenToSave(i)
           /\ recorded' = [recorded EXCEPT ![name] = @ + 1]
           /\ last_call' = [instance |-> i, player_name |-> name,
                            number |-> last_call.number + 1,
                            resets |-> last_call.resets,
                            saved |-> FALSE]
    /\ UNCHANGED last_query
    /\ UNCHANGED lb_rest
    /\ UNCHANGED generator_vars

UpdatePlayerScore == UpdatePlayerScoreOf(GameDraws)

\* reset_player_data(player_name) on instance i, up to the json.dump of its
\* _save_leaderboard
ResetPlayerData ==
    /\ \E i \in Instances, name \in PlayerNames :
        /\ managers[i].constructed
        /\ saving[i] = "no"
        /\ name \in DOMAIN managers[i].leaderboard_data
        /\ managers' = [managers EXCEPT ![i].leaderboard_data = DictDel(@, name)]
        /\ OpenToSave(i)
        /\ recorded' = [recorded EXCEPT ![name] = 0]
        /\ last_call' = [instance |-> i, player_name |-> name,
                         number |-> last_call.number,
                         resets |-> (last_call.resets + 1) % 2,
                         saved |-> FALSE]
    /\ UNCHANGED last_query
    /\ UNCHANGED lb_rest
    /\ UNCHANGED generator_vars

\* the json.dump of the _save_leaderboard that instance i has begun, which
\* ends its update_player_score or reset_player_data call
FinishSave ==
    /\ \E i \in Instances :
        /\ saving[i] # "no"
        /\ leaderboard_file' \in DumpOutcomes(leaderboard_file, saving[i],
                                                managers[i].leaderboard_data)
        /\ saving' = [j \in Instances |->
                        IF j = i THEN "no"
                        ELSE IF saving[j] = "opened" /\ leaderboard_file' # leaderboard_file
                        THEN "overwritten" ELSE saving[j]]
        /\ last_call' = IF last_call.instance = i
                        THEN [last_call EXCEPT !.saved =
                                /\ leaderboard_file'.exists
                                /\ leaderboard_file'.parses
                                /\ leaderboard_file'.data = managers[i].leaderboard_data]
                        ELSE last_call
    /\ UNCHANGED <<managers, recorded, last_query>>
    /\ UNCHANGED lb_rest
    /\ UNCHANGED generator_vars

NextB == NewManager \/ UpdatePlayerScore \/ ResetPlayerData \/ FinishSave

SpecB == InitC /\ [][NextB]_vars

\* The disk under the leaderboard file: it stops taking writes or takes
\* them again, the file is removed (the instances that have it open write
\* into the removed file from then on), or other text is written into it.
DiskChanges ==
    /\ \/ /\ leaderboard_file' = [leaderboard_file EXCEPT !.writable = ~@]
          /\ UNCHANGED saving
       \/ /\ leaderboard_file.exists
          /\ leaderboard_file' = [leaderboard_file EXCEPT !.exists = FALSE, !.parses = TRUE,
                                                           !.data = EmptyDict]
          /\ saving' = [j \in Instances |-> IF saving[j] = "no" THEN "no" ELSE "unlinked"]
       \/ /\ leaderboard_file' = [leaderboard_file EXCEPT !.exists = TRUE, !.parses = FALSE]
          /\ saving' = [j \in Instances |->
                            IF saving[j] = "opened" THEN "overwritten" ELSE saving[j]]
          /\ leaderboard_file' # leaderboard_file \/ saving' # saving
    /\ UNCHANGED <<managers, recorded, last_call, last_query>>
    /\ UNCHANGED lb_rest
    /\ UNCHANGED generator_vars

\* update_player_score while the disk changes: one game result is enough,
\* the file's fate does not depend on the score
UpdateOnDisk == UpdatePlayerScoreOf({[score |-> 50, level |-> 2]})

NextF == NewManager \/ UpdateOnDisk \/ ResetPlayerData \/ FinishSave \/ DiskChanges

SpecF == InitC /\ [][NextF]_vars

\* the largest limit asked of get_leaderboard
MaxLimit == 2

\* limit=None, and the limits given
Limits == {NoLimit} \cup {[given |-> TRUE, value |-> n] : n \in (0 - 1)..MaxLimit}

\* get_leaderboard: the record built for one player (avg_score and
\* last_played are left out)
LeaderboardRow(name, data) ==
    [player_name |-> name,
     total_score |-> data.total_score,
     games_played |-> data.games_played,
     best_score |-> data.best_score,
     max_level |-> data.max_level]

\* the orders in which the players of a set can be listed
Orderings(players) ==
    {order \in [1..Cardinality(players) -> players] :
        \A i, j \in 1..Cardinality(players) : i # j => order[i] # order[j]}

\* df.sort_values('total_score', ascending=False): the orders the sort can
\* give, players with the same total_score in any order (quicksort)
SortValues(leaderboard_data) ==
    {order \in Orderings(DOMAIN leaderboard_data) :
        \A i, j \in 1..Len(order) :
            i < j => leaderboard_data[order[i]].total_score
                        >= leaderboard_data[order[j]].total_score}

\* df.head(n): the first n rows, all but the last -n rows when n is negative
HeadRows(rows, n) ==
    IF n >= 0 THEN SubSeq(rows, 1, Min(n, Len(rows)))
    ELSE SubSeq(rows, 1, Max(Len(rows) + n, 0))

\* get_leaderboard(limit): the row sequences the call can return, an empty
\* sequence for the empty DataFrame
GetLeaderboard(leaderboard_data, limit) ==
    IF leaderboard_data = EmptyDict THEN {<<>>}
    ELSE {LET rows == [k \in 1..Len(order) |->
                            LeaderboardRow(order[k], leaderboard_data[order[k]])]
          IN IF limit.given /\ limit.value # 0 THEN HeadRows(rows, limit.value) ELSE rows :
          order \in SortValues(leaderboard_data)}

\* get_player_rank(player_name): the ranks the call can return, 0 for None
GetPlayerRank(leaderboard_data, name) ==
    {IF \E k \in 1..Len(rows) : rows[k].player_name = name
     THEN CHOOSE k \in 1..Len(rows) : rows[k].player_name = name
     ELSE 0 :
     rows \in GetLeaderboard(leaderboard_data, NoLimit)}

\* get_leaderboard(limit) on instance i
GetLeaderboardCall ==
    /\ \E i \in Instances, limit \in Limits :
        /\ managers[i].constructed
        /\ saving[i] = "no"
        /\ \E rows \in GetLeaderboard(managers[i].leaderboard_data, limit) :
              last_query' = [op |-> "get_leaderboard", instance |-> i, limit |-> limit,
                             player_name |-> "", rows |-> rows, rank |-> 0]
    /\ UNCHANGED <<leaderboard_file, managers, saving, recorded, last_call>>
    /\ UNCHANGED lb_rest
    /\ UNCHANGED generator_vars

\* get_player_rank(player_name) on instance i
GetPlayerRankCall ==
    /\ \E i \in Instances, name \in PlayerNames :
        /\ managers[i].constructed
        /\ saving[i] = "no"
        /\ \E rank \in GetPlayerRank(managers[i].leaderboard_data, name) :
              last_query' = [op |-> "get_player_rank", instance |-> i, limit |-> NoLimit,
                             player_name |-> name, rows |-> <<>>, rank |-> rank]
    /\ UNCHANGED <<leaderboard_file, managers, saving, recorded, last_call>>
    /\ UNCHANGED lb_rest
    /\ UNCHANGED generator_vars

\* update_player_score before a ranking: two game results, so that players
\* reach the same total_score as well as different ones
UpdateForRanking ==
    UpdatePlayerScoreOf({[score |-> 50, level |-> 2], [score |-> 120, level |-> 3]})

NextR == \/ NewManager
         \/ UpdateForRanking
         \/ FinishSave
         \/ GetLeaderboardCall
         \/ GetPlayerRankCall

SpecR == InitC /\ [][NextR]_vars

\* A leaderboard file in which Player has MaxPastGames games already:
\* game k was played in practice at level 1 and scored k.
PastLeaderboard(games) ==
    LET records == [k \in 1..games |-> [score |-> k, level |-> 1, mode |-> "practice"]]
    IN IF games = 0 THEN EmptyDict
       ELSE DictSet(EmptyDict, "Player",
                    [total_score |-> (games * (games + 1)) \div 2,
                     games_played |-> games,
                     best_score |-> games,
                     max_level |-> 1,
                     game_scores |-> KeepLast(records, MaxGameRecords),
                     history |-> records])

InitH ==
    /\ sympy_float_eq = TRUE
    /\ GeneratorInit
    /\ TimedInit
    /\ leaderboard_file = SaveLeaderboard(PastLeaderboard(MaxPastGames))
    /\ recorded = [p \in PlayerNames |-> IF p = "Player" THEN MaxPastGames ELSE 0]
    /\ last_query = NoQuery

SpecH == InitH /\ [][NextB]_vars

(***************************************************************************)
(* Reference arithmetic for the properties: the expanded coefficients of a *)
(* polynomial (index i holds the coefficient of x^(i-1)) and its value at  *)
(* a point, computed without reference to the analyzer.                    *)
(***************************************************************************)
TimesLinear(cs, a) ==
    [i \in 1..(Len(cs) + 1) |->
        (IF i > 1 THEN cs[i - 1] ELSE 0) - a * (IF i <= Len(cs) THEN cs[i] ELSE 0)]

RECURSIVE TimesLinearPower(_, _, _)
TimesLinearPower(cs, a, m) ==
    IF m = 0 THEN cs ELSE TimesLinearPower(TimesLinear(cs, a), a, m - 1)

\* cs times x^2 + 1
TimesQuad(cs) ==
    [i \in 1..(Len(cs) + 2) |->
        (IF i > 2 THEN cs[i - 2] ELSE 0) + (IF i <= Len(cs) THEN cs[i] ELSE 0)]

RECURSIVE TimesQuadPower(_, _)
TimesQuadPower(cs, m) == IF m = 0 THEN cs ELSE TimesQuadPower(TimesQuad(cs), m - 1)

RECURSIVE ExpandFrom(_, _)
ExpandFrom(p, a) ==
    IF a > RootMax THEN TimesQuadPower(<<p.lead>>, p.quad)
    ELSE TimesLinearPower(ExpandFrom(p, a + 1), a, p.mult[a])

Expand(p) == ExpandFrom(p, RootMin)

IsZeroPolynomial(p) == LET cs == Expand(p) IN \A i \in 1..Len(cs) : cs[i] = 0

\* exponent and coefficient of the highest and of the lowest nonzero term
TopIndex(cs) == CHOOSE i \in 1..Len(cs) : cs[i] # 0 /\ \A j \in (i + 1)..Len(cs) : cs[j] = 0
LowIndex(cs) == CHOOSE i \in 1..Len(cs) : cs[i] # 0 /\ \A j \in 1..(i - 1) : cs[j] = 0

RECURSIVE Horner(_, _, _)
Horner(cs, i, r) == IF i > Len(cs) THEN 0 ELSE cs[i] + r * Horner(cs, i + 1, r)

\* r is a root of p
IsRoot(p, r) == Horner(Expand(p), 1, r) = 0

\* the roots of p among the integers of [RootMin, RootMax]
RootsOf(p) == LET cs == Expand(p) IN {r \in Roots : Horner(cs, 1, r) = 0}

\* the x values a list of floats holds
Values(floats) == {floats[i] : i \in 1..Len(floats)}
FloatOf(r) == PyFloat(r, 1)

Analyzed == pc = "analyzed"
Injected == hole_factor # NoHole

(***************************************************************************)
(* Properties of generate_function and analyze_function.                   *)
(***************************************************************************)

\* C3: in every analysis returned by analyze_function no x value is both in
\* holes and in vertical_asymptotes, and no x value is both in holes and in
\* x_intercepts.
C3_HolesDisjoint ==
    Analyzed =>
        /\ Values(analysis.holes) \cap Values(analysis.vertical_asymptotes) = {}
        /\ Values(analysis.holes) \cap Values(analysis.x_intercepts) = {}

\* C4: when generate_function injected the shared factor (x - a), the
\* returned numerator and denominator both have the root a, and the analysis
\* lists a in holes and neither in vertical_asymptotes nor in x_intercepts.
C4_InjectedRootIsHoleOnly ==
    (Analyzed /\ Injected) =>
        /\ IsRoot(function_dict.numerator, hole_factor)
        /\ IsRoot(function_dict.denominator, hole_factor)
        /\ FloatOf(hole_factor) \in Values(analysis.holes)
        /\ FloatOf(hole_factor) \notin Values(analysis.vertical_asymptotes)
        /\ FloatOf(hole_factor) \notin Values(analysis.x_intercepts)

\* C5: analyze_function classifies every real root of the denominator exactly
\* once: holes are the denominator roots that are numerator roots,
\* vertical_asymptotes the remaining denominator roots, each listed once.
C5_DenominatorRootsClassified ==
    Analyzed =>
        /\ Values(analysis.holes) =
             {FloatOf(r) : r \in RootsOf(function_dict.denominator)
                                    \cap RootsOf(function_dict.numerator)}
        /\ Values(analysis.vertical_asymptotes) =
             {FloatOf(r) : r \in RootsOf(function_dict.denominator)
                                    \ RootsOf(function_dict.numerator)}
        /\ Cardinality(Values(analysis.holes)) = Len(analysis.holes)
        /\ Cardinality(Values(analysis.vertical_asymptotes)) = Len(analysis.vertical_asymptotes)

C5_Witness ==
    /\ Analyzed
    /\ Len(analysis.holes) = 1
    /\ Len(analysis.vertical_asymptotes) = 1
    /\ ~Injected

\* C6: the x_intercepts are exactly the real numerator roots that are not
\* classified as holes, i.e. that are not denominator roots.
C6_XInterceptsAreNonHoleRoots ==
    Analyzed =>
        Values(analysis.x_intercepts) =
            {FloatOf(r) : r \in RootsOf(function_dict.numerator)
                                   \ RootsOf(function_dict.denominator)}

\* C7: the horizontal asymptote is 0.0 when the numerator degree is below the
\* denominator degree, the ratio of the leading coefficients when the degrees
\* are equal and None when the numerator degree is larger; the fallback int 0
\* is never returned for a generated function.
C7_HorizontalAsymptote ==
    Analyzed =>
        LET nc == Expand(function_dict.numerator)
            dc == Expand(function_dict.denominator)
            ndeg == TopIndex(nc)
            ddeg == TopIndex(dc)
        IN /\ ndeg < ddeg => analysis.horizontal_asymptote = PyFloat(0, 1)
           /\ ndeg = ddeg => analysis.horizontal_asymptote = PyFloat(nc[ndeg], dc[ddeg])
           /\ ndeg > ddeg => analysis.horizontal_asymptote = PyNone
           /\ analysis.horizontal_asymptote # PyInt(0)

C7_Witness ==
    /\ Analyzed
    /\ analysis.horizontal_asymptote = PyFloat(-1, 2)

C7_WitnessNone ==
    /\ Analyzed
    /\ analysis.horizontal_asymptote = PyNone
    /\ function_dict.numerator.lead < 0

\* C8: y_intercept is the value of the simplified function at x = 0, and it
\* is None exactly when x = 0 is a pole of the simplified function (the
\* denominator vanishes at 0 to a higher order than the numerator).
C8_YIntercept ==
    Analyzed =>
        LET nc == Expand(function_dict.numerator)
            dc == Expand(function_dict.denominator)
            nlow == LowIndex(nc)
            dlow == LowIndex(dc)
        IN /\ (analysis.y_intercept = PyNone) <=> (dlow > nlow)
           /\ nlow > dlow => analysis.y_intercept = PyFloat(0, 1)
           /\ nlow = dlow => analysis.y_intercept = PyFloat(nc[nlow], dc[dlow])

\* x = 0 is a hole (a root of numerator and denominator) and the y-intercept
\* is still a nonzero value
C8_Witness ==
    /\ Analyzed
    /\ FloatOf(0) \in Values(analysis.holes)
    /\ analysis.y_intercept \notin {PyNone, PyFloat(0, 1)}

\* C9 as stated: with no shared factor injected, holes is empty.
C9_NoInjectionNoHoles ==
    (Analyzed /\ ~Injected) => analysis.holes = <<>>

\* C9, amended: with no shared factor injected, holes is empty exactly when
\* the independently drawn numerator and denominator have no common root, and
\* every hole is a root of both.
C9_HolesAreSharedRoots ==
    (Analyzed /\ ~Injected) =>
        /\ (analysis.holes = <<>>) <=>
              (RootsOf(drawn.numerator) \cap RootsOf(drawn.denominator) = {})
        /\ \A i \in 1..Len(analysis.holes) :
              \E r \in RootsOf(drawn.numerator) \cap RootsOf(drawn.denominator) :
                  analysis.holes[i] = PyFloat(r, 1)

C9_Witness ==
    /\ Analyzed
    /\ ~Injected
    /\ Len(analysis.holes) = 2

\* C10: the denominator generate_function returns is never the zero
\* polynomial, neither as drawn nor after the shared factor is multiplied in.
C10_DenominatorNonZero ==
    pc # "idle" =>
        /\ ~IsZeroPolynomial(drawn.denominator)
        /\ ~IsZeroPolynomial(function_dict.denominator)

C10_Witness ==
    /\ pc = "generated"
    /\ Injected
    /\ Degree(function_dict.denominator) = Degree(drawn.denominator) + 1
    /\ Expand(function_dict.denominator)[1] = 0

(***************************************************************************)
(* Properties of generate_multiple_choice_question.                        *)
(***************************************************************************)
Asked == pc = "asked"

\* C1: every returned question has exactly 4 choice strings, and exactly one
\* of them equals correct_answer.
C1_FourChoicesOneCorrect ==
    Asked =>
        /\ Len(question.choices) = 4
        /\ Cardinality({i \in 1..Len(question.choices) :
                            question.choices[i] = question.correct_answer}) = 1

\* a question about the horizontal asymptote 1/3, the sample 1/3 + 2 its
\* last choice
C1_Witness ==
    /\ Asked
    /\ question.kind = "horizontal_asymptote"
    /\ question.correct_answer = "0.3333333333333333"
    /\ question.choices[4] = "2.3333333333333335"

\* C2: in every returned question, of whatever kind, the 4 choice strings
\* are pairwise distinct.
C2_ChoicesDistinct ==
    Asked =>
        \A i, j \in 1..Len(question.choices) :
            i # j => question.choices[i] # question.choices[j]

\* the asked feature of the analysis is empty: an empty list, or None for
\* the horizontal asymptote
FeatureIsEmpty ==
    IF kind = "vertical_asymptotes" THEN analysis.vertical_asymptotes = <<>>
    ELSE IF kind = "x_intercepts" THEN analysis.x_intercepts = <<>>
    ELSE IF kind = "holes" THEN analysis.holes = <<>>
    ELSE analysis.horizontal_asymptote = PyNone

ChoiceSet == {question.choices[i] : i \in 1..Len(question.choices)}

\* C13: when the asked feature is empty (an empty vertical_asymptotes,
\* x_intercepts or holes list) the correct answer is "None" and the three
\* wrong answers are exactly [-1], [0] and [1]; when horizontal_asymptote is
\* None the correct answer is "None" and the wrong answers are exactly -1, 0
\* and 1; nothing sampled at random is among the choices.
C13_NoneQuestion ==
    (Asked /\ FeatureIsEmpty) =>
        /\ question.correct_answer = "None"
        /\ Len(question.choices) = 4
        /\ ChoiceSet = IF kind = "horizontal_asymptote"
                       THEN {"None", "-1", "0", "1"}
                       ELSE {"None", "[-1]", "[0]", "[1]"}

\* a "None" question about an empty holes list, asked after its loop
\* sampled three other values
C13_Witness ==
    /\ Asked /\ FeatureIsEmpty
    /\ kind = "holes"
    /\ question.choices[1] = "None"

\* a "None" question about a None horizontal asymptote
C13_WitnessHa ==
    Asked /\ FeatureIsEmpty /\ kind = "horizontal_asymptote"

\* C14: generate_multiple_choice_question never rejects a question_type
\* that is not one of the four kinds (the "random" sentinel, None, any
\* unrecognized value): it picks one of the four kinds and returns that
\* kind's question; called with one of the four kinds it returns exactly
\* that kind's question.
C14_Dispatch ==
    /\ pc = "analyzed" =>
            \A qt \in QuestionTypes : ENABLED (StartQuestion /\ question_type' = qt)
    /\ pc \in {"sampling", "asked"} =>
            /\ kind \in {"vertical_asymptotes", "horizontal_asymptote", "x_intercepts", "holes"}
            /\ question_type \in
                    {"vertical_asymptotes", "horizontal_asymptote", "x_intercepts", "holes"}
                => kind = question_type
    /\ Asked =>
            /\ question.kind = kind
            /\ kind = "vertical_asymptotes" =>
                  question.explanation =
                    "Vertical asymptotes occur where the denominator equals zero but the numerator doesn't."
            /\ kind = "horizontal_asymptote" =>
                  question.explanation =
                    "Horizontal asymptotes depend on the degrees of numerator and denominator."
            /\ kind = "x_intercepts" =>
                  question.explanation =
                    "X-intercepts occur where the numerator equals zero but the denominator doesn't."
            /\ kind = "holes" =>
                  question.explanation =
                    "Holes occur where both numerator and denominator equal zero."

\* a call with None answered by a holes question
C14_Witness ==
    Asked /\ question_type = "None" /\ question.kind = "holes"

\* some value of the sampled range passes the loop's test
AdmissibleLeft ==
    \E draw \in (IF kind = "horizontal_asymptote" THEN -3..3 ELSE -5..5) :
        ~Collides(kind, draw, CorrectAnswer(kind, analysis), wrong_answers)

\* C15: generate_multiple_choice_question always returns: for every kind and
\* every analysis of a generated function, each resampling loop has at least
\* one admissible value left, and under fair random choice the builder
\* reaches its return.
C15_AlwaysReturns ==
    /\ []((pc = "sampling" /\ ~SamplingDone) => AdmissibleLeft)
    /\ (pc = "sampling") ~> Asked

\* the third pass of a loop, two wrong answers already taken
C15_Witness ==
    /\ pc = "sampling"
    /\ Len(wrong_answers) = 2
    /\ kind = "x_intercepts"
    /\ analysis.x_intercepts # <<>>

AllFloats(floats) == \A i \in 1..Len(floats) : floats[i].t = "float"

\* C16: analyze_function does not raise on any function generate_function
\* can produce: it returns the five keys vertical_asymptotes, holes,
\* horizontal_asymptote, x_intercepts and y_intercept, and a failure of the
\* y-intercept evaluation (the function has a pole at 0) leaves None in
\* y_intercept and every other feature as it is without the failure; the
\* horizontal asymptote is a float, None or 0.
C16_AnalysisTotal ==
    Analyzed =>
        /\ DOMAIN analysis = {"vertical_asymptotes", "holes", "horizontal_asymptote",
                              "x_intercepts", "y_intercept"}
        /\ AllFloats(analysis.vertical_asymptotes)
        /\ AllFloats(analysis.holes)
        /\ AllFloats(analysis.x_intercepts)
        /\ analysis.horizontal_asymptote.t \in {"float", "NoneType"}
                \/ analysis.horizontal_asymptote = PyInt(0)
        /\ analysis.y_intercept.t \in {"float", "NoneType"}
        /\ Horner(Expand(function_dict.function.den), 1, 0) = 0 =>
            /\ analysis.y_intercept = PyNone
            /\ Values(analysis.vertical_asymptotes) =
                 {FloatOf(r) : r \in RootsOf(function_dict.denominator)
                                        \ RootsOf(function_dict.numerator)}
            /\ Values(analysis.holes) =
                 {FloatOf(r) : r \in RootsOf(function_dict.denominator)
                                        \cap RootsOf(function_dict.numerator)}
            /\ Values(analysis.x_intercepts) \subseteq
                 {FloatOf(r) : r \in RootsOf(function_dict.numerator)}

\* the function has a pole at 0: the y-intercept evaluation failed, and the
\* analysis still lists 0 as a vertical asymptote and has an x-intercept
C16_Witness ==
    /\ Analyzed
    /\ analysis.y_intercept = PyNone
    /\ FloatOf(0) \in Values(analysis.vertical_asymptotes)
    /\ analysis.x_intercepts # <<>>

\* the two worked functions, by their expanded coefficients:
\* (x - 2) / ((x - 2)(x - 3)) = (x - 2) / (x^2 - 5x + 6), and 2x^2 / (x^2 + 1)
IsHoleScenario ==
    /\ Expand(function_dict.numerator) = <<-2, 1>>
    /\ Expand(function_dict.denominator) = <<6, -5, 1>>

IsNoRealRootScenario ==
    /\ Expand(function_dict.numerator) = <<0, 0, 2>>
    /\ Expand(function_dict.denominator) = <<1, 0, 1>>

\* C18 as stated: for numerator (x - 2) and denominator (x - 2)(x - 3),
\* analyze_function returns holes = {2}, vertical_asymptotes = {3},
\* x_intercepts = {}, horizontal_asymptote = 0 and y_intercept = -2/3.
C18_HoleScenarioAsStated ==
    (Analyzed /\ IsHoleScenario) =>
        /\ analysis.holes = <<FloatOf(2)>>
        /\ analysis.vertical_asymptotes = <<FloatOf(3)>>
        /\ analysis.x_intercepts = <<>>
        /\ analysis.horizontal_asymptote = PyFloat(0, 1)
        /\ analysis.y_intercept = PyFloat(-2, 3)

\* C18, amended: for numerator (x - 2) and denominator (x - 2)(x - 3),
\* analyze_function returns holes = {2}, vertical_asymptotes = {3},
\* horizontal_asymptote = 0 and y_intercept = -1/3, the value of 1/(x - 3)
\* at 0; x_intercepts is {} where the installed SymPy lets the Integer 2
\* equal the float 2.0, and {2} where it does not.
C18_HoleScenario ==
    (Analyzed /\ IsHoleScenario) =>
        /\ analysis.holes = <<FloatOf(2)>>
        /\ analysis.vertical_asymptotes = <<FloatOf(3)>>
        /\ sympy_float_eq => analysis.x_intercepts = <<>>
        /\ ~sympy_float_eq => analysis.x_intercepts = <<FloatOf(2)>>
        /\ analysis.horizontal_asymptote = PyFloat(0, 1)
        /\ analysis.y_intercept = PyFloat(-1, 3)

C18_Witness ==
    Analyzed /\ IsHoleScenario /\ sympy_float_eq

\* C19: for numerator 2x^2 and denominator x^2 + 1, whose denominator has
\* no real root, analyze_function returns vertical_asymptotes = {} and
\* holes = {}, horizontal_asymptote = 2, x_intercepts = {0} and
\* y_intercept = 0.
C19_NoRealRootScenario ==
    (Analyzed /\ IsNoRealRootScenario) =>
        /\ analysis.vertical_asymptotes = <<>>
        /\ analysis.holes = <<>>
        /\ analysis.horizontal_asymptote = PyFloat(2, 1)
        /\ analysis.x_intercepts = <<FloatOf(0)>>
        /\ analysis.y_intercept = PyFloat(0, 1)

C19_Witness ==
    Analyzed /\ IsNoRealRootScenario

(***************************************************************************)
(* Properties of _generate_polynomial and of the configuration lookup.     *)
(***************************************************************************)
PolynomialMade == pc = "polynomial"

\* the coefficients of k * x^m
MonomialCoefficients(k, m) == [i \in 1..(m + 1) |-> IF i = m + 1 THEN k ELSE 0]

\* the coefficients of cs * (x - as[1]) * ... * (x - as[n])
RECURSIVE TimesLinearAll(_, _)
TimesLinearAll(cs, as) ==
    IF as = <<>> THEN cs ELSE TimesLinearAll(TimesLinear(cs, Head(as)), Tail(as))

\* C11: _generate_polynomial(max_degree, max_factors) returns the product of
\* f linear factors (x - a), every a an integer of [-5, 5], with
\* 1 <= f <= min(max_factors, d) and 1 <= d <= max_degree, times a monomial
\* c * x^(d - f) that is present exactly when d > f, c a nonzero integer of
\* [-5, 5]; the total degree of the result is d.
C11_PolynomialShape ==
    PolynomialMade =>
        LET d == poly.degree
            f == poly.factors
            cs == Expand(poly.polynomial)
        IN /\ 1 <= d /\ d <= config.max_degree
           /\ 1 <= f /\ f <= Min(config.max_factors, d)
           /\ Len(poly.as) = f
           /\ \A i \in 1..f : poly.as[i] \in RootMin..RootMax
           /\ IF d > f
              THEN \E k \in (CoeffMin..CoeffMax) \ {0} :
                      cs = TimesLinearAll(MonomialCoefficients(k, d - f), poly.as)
              ELSE cs = TimesLinearAll(<<1>>, poly.as)
           /\ ~IsZeroPolynomial(poly.polynomial)
           /\ TopIndex(cs) = d + 1

\* a call that drew more degree than factors and the coefficient 0
C11_Witness ==
    PolynomialMade /\ poly.degree > poly.factors /\ poly.c = 0

\* the table of the five levels, as (max_degree, max_factors, holes_prob in tenths)
LevelTable == <<<<2, 2, 3>>, <<3, 3, 4>>, <<4, 4, 5>>, <<5, 5, 6>>, <<6, 6, 7>>>>

\* C12: generate_function called with a difficulty outside 1..5 does not
\* fail and uses the level-1 configuration (max_degree 2, max_factors 2,
\* holes_prob 0.3); with a difficulty of 1..5 it uses that level's
\* configuration, and the polynomial it draws stays within it.
C12_ConfigOfDifficulty ==
    /\ pc = "idle" => ENABLED LookupConfig
    /\ pc \in {"configured", "polynomial"} =>
        LET row == IF difficulty \in 1..5 THEN LevelTable[difficulty] ELSE LevelTable[1]
        IN /\ config.max_degree = row[1]
           /\ config.max_factors = row[2]
           /\ config.holes_prob = row[3]
           /\ PolynomialMade =>
                /\ TopIndex(Expand(poly.polynomial)) <= row[1] + 1
                /\ poly.factors <= row[2]

\* a difficulty outside 1..5 whose polynomial uses all the degree level 1 allows
C12_Witness ==
    PolynomialMade /\ difficulty \notin 1..5 /\ poly.degree = 2

(***************************************************************************)
(* Properties of the timed challenge.                                      *)
(***************************************************************************)
\* the last step was a script run of the active screen
AfterActiveRun == last_run \in {"rerun", "submit"}

\* the configured duration of the chosen challenge, in seconds
ConfiguredDuration ==
    IF timed_mode = "blitz" THEN 30 ELSE IF timed_mode = "sprint" THEN 60 ELSE 300

\* the elapsed time has reached the duration, or every generated question
\* has been answered
TimeOutOrAllAnswered ==
    \/ now - timed_start_time >= ConfiguredDuration
    \/ timed_current_question >= Len(timed_questions)

\* C20: an active timed challenge ends when time runs out or all questions
\* are answered, and only then: after a script run of the active screen the
\* challenge is finished exactly when the elapsed time has reached the
\* configured duration or timed_current_question has reached the number of
\* generated questions; otherwise it is still active, on a question of the
\* list.
C20_EndsExactlyWhenOver ==
    AfterActiveRun =>
        /\ timed_finished <=> TimeOutOrAllAnswered
        /\ timed_active <=> ~TimeOutOrAllAnswered
        /\ timed_active => timed_current_question + 1 \in 1..Len(timed_questions)

\* time ran out on the third question
C20_Witness ==
    /\ AfterActiveRun
    /\ timed_finished
    /\ timed_current_question = 2
    /\ now - timed_start_time = 30

\* the number of correct answers given consecutively immediately before
\* answer i
RECURSIVE ConsecutiveBefore(_, _)
ConsecutiveBefore(answers, i) ==
    IF i = 1 \/ ~answers[i - 1].correct THEN 0
    ELSE 1 + ConsecutiveBefore(answers, i - 1)

\* the streak bonus of a streak: 25 points per answer above 2, at most 250
StreakBonusOf(streak) ==
    IF streak >= 3 THEN 25 * (IF streak - 2 < 10 THEN streak - 2 ELSE 10) ELSE 0

\* C21: in the timed challenge the streak bonus rewards consecutive correct
\* answers: the streak a correct answer is scored with is the number of
\* correct answers given consecutively immediately before it, so an
\* incorrect answer brings the streak of later answers back to 0.  (A
\* correct answer scores its level's base, plus 50 when quick, plus the
\* bonus of its streak.)
C21_StreakIsConsecutive ==
    \A i \in 1..Len(timed_answers) :
        timed_answers[i].correct =>
            LET base == (100 * <<100, 120, 150, 180, 200>>[timed_questions[i]]) \div 100
                bonus == StreakBonusOf(ConsecutiveBefore(timed_answers, i))
            IN timed_answers[i].score \in {base + bonus, base + 50 + bonus}

\* C22: calculate_score returns 0 for an incorrect answer; for a correct
\* answer it returns int(100 * m) + (50 if time_taken < 5 else 0) +
\* (25 * min(current_streak - 2, 10) if current_streak >= 3 else 0), m being
\* 1.0, 1.2, 1.5, 1.8, 2.0 for difficulty 1..5 and 1.0 for any other; a
\* correct answer scores between 100 and 500 and the streak bonus is the
\* same from streak 12 on.
C22_ScoreFormula ==
    scored.called =>
        LET tenths == IF scored.difficulty_level \in 1..5
                      THEN <<10, 12, 15, 18, 20>>[scored.difficulty_level] ELSE 10
            quick == IF scored.time_taken.p < 5 * scored.time_taken.q THEN 50 ELSE 0
            streak == scored.current_streak
            bonus == IF streak >= 3
                     THEN 25 * (IF streak - 2 < 10 THEN streak - 2 ELSE 10) ELSE 0
        IN /\ ~scored.is_correct => scored.score = 0
           /\ scored.is_correct =>
                /\ scored.score = 10 * tenths + quick + bonus
                /\ scored.score >= 100 /\ scored.score <= 500
                /\ streak >= 12 => scored.score = 10 * tenths + quick + 250

\* the highest score: level 5, quick, a streak past 12
C22_Witness ==
    /\ scored.called /\ scored.is_correct
    /\ scored.current_streak = 13
    /\ scored.score = 500

\* C23: in the timed challenge no answer is recorded or scored once the
\* configured duration has elapsed: a script run of an active challenge
\* whose time check finds no remaining time, with or without a submitted
\* answer, ends the challenge and appends nothing to timed_answers or
\* timed_scores.
C23_NoAnswerAfterTimeout ==
    [][(timed_active /\ now - timed_start_time >= ConfiguredDuration /\ now' = now) =>
            /\ timed_answers' = timed_answers
            /\ timed_scores' = timed_scores
            /\ timed_finished' /\ ~timed_active']_vars

\* a submission that arrived after the time was up, on the second question:
\* the challenge ended with one answer recorded
C23_Witness ==
    /\ last_run = "submit"
    /\ timed_finished
    /\ now - timed_start_time >= ConfiguredDuration
    /\ timed_current_question = 1
    /\ Len(timed_answers) = 1

(***************************************************************************)
(* Properties of practice mode.                                            *)
(***************************************************************************)
\* C24: in practice mode each submitted answer is counted exactly once:
\* from the submission of an answer on, through the generation of the next
\* question and until the next submission, practice_questions_answered is
\* at most 1 more than at the submission and the player stats have received
\* at most one update, and exactly that once the results have been shown,
\* however many reruns (Next Question and Back to Home included) happened.
C24_AnswerCountedOnce ==
    practice_before.valid =>
        /\ practice_questions_answered <= practice_before.answered + 1
        /\ stats_updates <= practice_before.stats + 1
        /\ practice_screen = "results" =>
                /\ practice_questions_answered = practice_before.answered + 1
                /\ stats_updates = practice_before.stats + 1

(***************************************************************************)
(* Properties of the multiplayer quiz.                                     *)
(***************************************************************************)
\* C25: every multiplayer room the player enters eventually leaves the
\* waiting room: whenever the session is in the waiting room (after
\* _create_room or a successful _join_room), a player who presses the start
\* button when it is offered reaches mp_active = True; a player who joined
\* an existing room is not left waiting forever.
C25_LeavesWaitingRoom == mp_waiting_for_players ~> mp_active

(***************************************************************************)
(* Properties of the games' ends.                                          *)
(***************************************************************************)
\* C26: every started timed challenge eventually reaches the finished
\* state, whether or not the player submits answers, when time advances and
\* the active screen keeps rerunning.
C26_EventuallyFinished == timed_active ~> timed_finished

\* a challenge that finished by the time check alone, no answer submitted
C26_Witness ==
    /\ timed_finished /\ ~timed_active
    /\ timed_answers = <<>>
    /\ now - timed_start_time >= challenge_configs[timed_mode].duration

\* games_played of a player in a leaderboard, 0 without an entry
GamesPlayedIn(leaderboard_data, name) ==
    IF name \in DOMAIN leaderboard_data THEN leaderboard_data[name].games_played ELSE 0

\* total_score of a player in a leaderboard, 0 without an entry
TotalScoreIn(leaderboard_data, name) ==
    IF name \in DOMAIN leaderboard_data THEN leaderboard_data[name].total_score ELSE 0

\* the scores of a list of posts
PostedScores(posts) == [k \in 1..Len(posts) |-> posts[k].score]

\* the kind of game of each game_mode posted to the leaderboard
GameKinds ==
    [timed_blitz |-> "timed", timed_sprint |-> "timed", timed_marathon |-> "timed",
     multiplayer_quick |-> "multiplayer", multiplayer_standard |-> "multiplayer",
     multiplayer_expert |-> "multiplayer", practice |-> "practice"]

\* the posts of one kind of game among posts
PostsOfKind(posts, game) == SelectSeq(posts, LAMBDA post : GameKinds[post.game_type] = game)

\* the posts of a kind of game made since the last game of that kind started
PostsSince(game) ==
    PostsOfKind(SubSeq(leaderboard_posts, game_before[game].posts + 1, Len(leaderboard_posts)),
                game)

\* the posts made under a name
PostsFor(name) == SelectSeq(leaderboard_posts, LAMBDA post : post.player_name = name)

\* the names posted or in the leaderboard file
PostedNames ==
    {leaderboard_posts[k].player_name : k \in 1..Len(leaderboard_posts)}
    \cup DOMAIN LoadLeaderboard(leaderboard_file)

\* post is the result of the timed challenge of the session
TimedResult(post) ==
    /\ post.game_type = "timed_" \o timed_mode
    /\ post.score = Sum(timed_scores)

\* post is the result of the multiplayer quiz of the session for the name
\* it was posted under
QuizResult(post) ==
    /\ post.game_type = "multiplayer_" \o mp_room_type
    /\ post.score = PlayerTotalScore(MpSession, post.player_name)

\* from the start of a game to the next start of a game of its kind: no
\* post while it is active, one post with its total once it has finished;
\* every post has reached leaderboard.json
PostedOnce ==
    /\ \A game \in DOMAIN game_before :
            /\ ~game_before[game].valid => PostsOfKind(leaderboard_posts, game) = <<>>
            /\ Len(PostsSince(game)) <= 1
    /\ timed_active => PostsSince("timed") = <<>>
    /\ mp_active => PostsSince("multiplayer") = <<>>
    /\ timed_finished =>
            Len(PostsSince("timed")) = 1 /\ TimedResult(PostsSince("timed")[1])
    /\ mp_finished =>
            Len(PostsSince("multiplayer")) = 1 /\ QuizResult(PostsSince("multiplayer")[1])
    /\ \A name \in PostedNames :
            /\ GamesPlayedIn(LoadLeaderboard(leaderboard_file), name) = Len(PostsFor(name))
            /\ TotalScoreIn(LoadLeaderboard(leaderboard_file), name)
                    = Sum(PostedScores(PostsFor(name)))

\* a step that posts is the end of an active game of the post's kind and
\* adds the posted total, with the points of the achievements it unlocks,
\* to current_score; no other step ends a game, unlocks an achievement or
\* changes current_score, except Change Player, which clears the score
AddedOnce ==
    IF leaderboard_posts' # leaderboard_posts
    THEN LET post == leaderboard_posts'[Len(leaderboard_posts')]
         IN /\ leaderboard_posts' = Append(leaderboard_posts, post)
            /\ current_score' = current_score + post.score
                                    + AchievementPoints(achievements')
                                    - AchievementPoints(achievements)
            /\ \/ /\ GameKinds[post.game_type] = "timed"
                  /\ timed_active /\ ~timed_active' /\ timed_finished'
                  /\ UNCHANGED <<mp_active, mp_finished>>
               \/ /\ GameKinds[post.game_type] = "multiplayer"
                  /\ mp_active /\ ~mp_active' /\ mp_finished'
                  /\ UNCHANGED <<timed_active, timed_finished, achievements>>
    ELSE /\ timed_active => timed_active'
         /\ mp_active => mp_active'
         /\ achievements' = achievements
         /\ \/ current_score' = current_score
            \/ player_name # "" /\ player_name' = "" /\ current_score' = 0

\* C27: each timed challenge and each multiplayer quiz that finishes posts
\* its result to the leaderboard exactly once and adds its total to
\* current_score exactly once: from the start of a game to the next start
\* of a game of its kind nothing is posted while the game is active, and
\* once it has finished exactly one post carries its total; the step that
\* posts is the step that ends the game, and it is the only step that adds
\* to current_score (the game's total and the points of the achievements
\* the end unlocks), whatever reruns, timeouts, last-question submissions,
\* changes of player or games of the other kind occur in between.
C27_EndsOnce == []PostedOnce /\ [][AddedOnce]_vars

\* a timed challenge and a multiplayer quiz played at the same time under
\* two names: both were started before anything was posted, the quiz
\* finished first, and both results are in leaderboard.json
C27_Witness ==
    /\ timed_finished /\ mp_finished
    /\ game_before.timed = [valid |-> TRUE, posts |-> 0]
    /\ game_before.multiplayer = [valid |-> TRUE, posts |-> 0]
    /\ Len(leaderboard_posts) = 2
    /\ GameKinds[leaderboard_posts[1].game_type] = "multiplayer"
    /\ leaderboard_posts[1].score > 0
    /\ leaderboard_posts[2].score > 0
    /\ leaderboard_posts[1].player_name # leaderboard_posts[2].player_name
    /\ \A k \in 1..2 :
            GamesPlayedIn(LoadLeaderboard(leaderboard_file), leaderboard_posts[k].player_name) = 1

(***************************************************************************)
(* Properties of the leaderboard.                                          *)
(***************************************************************************)
\* the leaderboards there are: the file's and each constructed instance's
Leaderboards ==
    {LoadLeaderboard(leaderboard_file)}
    \cup {managers[i].leaderboard_data : i \in {j \in Instances : managers[j].constructed}}

\* the entries of all of them
Entries == UNION {Range(board) : board \in Leaderboards}

\* C28: after any sequence of update_player_score calls every player's
\* game_scores holds at most 50 records, and they are the most recent
\* records of that player in call order.
C28_LastFiftyRecords ==
    \A entry \in Entries :
        LET kept == Len(entry.game_scores)
            made == Len(entry.history)
        IN /\ kept = Min(made, 50)
           /\ \A k \in 1..kept : entry.game_scores[k] = entry.history[made - kept + k]

\* an entry that has dropped its oldest records
C28_Witness ==
    \E i \in Instances :
        /\ managers[i].constructed
        /\ "Player" \in DOMAIN managers[i].leaderboard_data
        /\ Len(managers[i].leaderboard_data["Player"].history) > 51
        /\ Len(managers[i].leaderboard_data["Player"].game_scores) = 50

Greatest(numbers) == CHOOSE m \in numbers : \A n \in numbers : n <= m

\* the totals of an entry are those of the calls made for it
TotalsOfHistory(entry) ==
    LET made == entry.history
    IN /\ entry.games_played = Len(made)
       /\ entry.total_score = Sum([k \in 1..Len(made) |-> made[k].score])
       /\ entry.best_score = Greatest({0} \cup {made[k].score : k \in 1..Len(made)})
       /\ entry.max_level = Greatest({1} \cup {made[k].level : k \in 1..Len(made)})

\* the entry of a player in a leaderboard, as a list of one entry or none
EntryIn(leaderboard_data, name) ==
    IF name \in DOMAIN leaderboard_data THEN <<leaderboard_data[name]>> ELSE <<>>

\* C29: after any sequence of update_player_score calls for a player since
\* the entry was created (or since the last reset_player_data),
\* games_played is the number of those calls, total_score the sum of their
\* scores, best_score the maximum of 0 and their scores and max_level the
\* maximum of 1 and their levels; each call leaves the entries of the other
\* players as they were.
C29_TotalsOfCalls ==
    /\ [](\A entry \in Entries : TotalsOfHistory(entry))
    /\ [][last_call'.number # last_call.number =>
            \A name \in PlayerNames \ {last_call'.player_name} :
                EntryIn(managers'[last_call'.instance].leaderboard_data, name)
                    = EntryIn(managers[last_call'.instance].leaderboard_data, name)]_vars

\* two calls for a player, the best score not the last one, in a
\* leaderboard that holds another player
C29_Witness ==
    \E i \in Instances :
        /\ managers[i].constructed
        /\ DOMAIN managers[i].leaderboard_data = PlayerNames
        /\ recorded["Player"] = 2
        /\ last_call.number = 3
        /\ last_call.player_name = "Player"
        /\ managers[i].leaderboard_data["Player"].games_played = 2
        /\ managers[i].leaderboard_data["Player"].best_score = 120
        /\ managers[i].leaderboard_data["Player"].total_score = 170
        /\ managers[i].leaderboard_data["Player"].max_level = 3
        /\ managers[i].leaderboard_data["Player"].game_scores[2].score = 50

\* C30: a score recorded through one LeaderboardManager instance is not
\* lost by a later update through another instance on the same file: the
\* file contains the effect of every update_player_score call, that is, for
\* each player as many games as calls were made since the player's last
\* reset, whenever every call made has returned.
C30_NoLostUpdate ==
    (\A i \in Instances : saving[i] = "no") =>
        \A name \in PlayerNames :
            LET in_file == EntryIn(LoadLeaderboard(leaderboard_file), name)
            IN recorded[name] = IF in_file = <<>> THEN 0 ELSE in_file[1].games_played


(***************************************************************************)
(* C31: leaderboard persistence is best effort.  Whatever happens to the   *)
(* file, update_player_score leaves the player's entry in the instance's   *)
(* leaderboard_data with one more game, reset_player_data leaves the       *)
(* instance without the player, and a LeaderboardManager constructed over  *)
(* a missing or unparsable file starts with an empty leaderboard.          *)
(***************************************************************************)
C31_BestEffortPersistence ==
    [][/\ last_call'.number # last_call.number =>
            LET i == last_call'.instance
                name == last_call'.player_name
            IN /\ name \in DOMAIN managers'[i].leaderboard_data
               /\ GamesPlayedIn(managers'[i].leaderboard_data, name)
                    = GamesPlayedIn(managers[i].leaderboard_data, name) + 1
       /\ last_call'.resets # last_call.resets =>
            /\ last_call'.player_name \in DOMAIN managers[last_call'.instance].leaderboard_data
            /\ last_call'.player_name
                    \notin DOMAIN managers'[last_call'.instance].leaderboard_data
       /\ \A i \in Instances :
            (/\ last_call' = last_call
             /\ managers'[i] # managers[i]
             /\ ~(leaderboard_file.exists /\ leaderboard_file.parses))
                => /\ managers'[i].constructed
                   /\ managers'[i].leaderboard_data = EmptyDict]_vars

\* The last update could not be saved, the instance that made it holds the
\* player's game all the same, the file on disk is damaged, and another
\* instance has started with an empty leaderboard.
C31_Witness ==
    /\ last_call.number = 1
    /\ last_call.resets = 0
    /\ \A i \in Instances : saving[i] = "no"
    /\ ~last_call.saved
    /\ GamesPlayedIn(managers[last_call.instance].leaderboard_data, last_call.player_name) = 1
    /\ leaderboard_file.exists
    /\ ~leaderboard_file.parses
    /\ leaderboard_file.data # EmptyDict
    /\ \E j \in Instances \ {last_call.instance} :
            managers[j].constructed /\ managers[j].leaderboard_data = EmptyDict


(***************************************************************************)
(* C32: get_leaderboard returns one row per stored player, ordered by      *)
(* total_score from highest to lowest and cut to the first `limit` rows    *)
(* when a limit is given; get_player_rank returns the player's 1-based     *)
(* position in that order, None (0 here) for an unknown player or an empty *)
(* leaderboard, and a strictly higher total_score means a strictly smaller *)
(* rank.                                                                   *)
(***************************************************************************)
PlayersAbove(leaderboard_data, name) ==
    {p \in DOMAIN leaderboard_data :
        leaderboard_data[p].total_score > leaderboard_data[name].total_score}

PlayersNotBelow(leaderboard_data, name) ==
    {p \in DOMAIN leaderboard_data :
        leaderboard_data[p].total_score >= leaderboard_data[name].total_score}

\* rows is an ordered leaderboard of leaderboard_data cut to its first n rows
OrderedRows(rows, leaderboard_data, n) ==
    /\ Len(rows) = Min(n, Cardinality(DOMAIN leaderboard_data))
    /\ \A k \in 1..Len(rows) :
        /\ rows[k].player_name \in DOMAIN leaderboard_data
        /\ rows[k] = LeaderboardRow(rows[k].player_name, leaderboard_data[rows[k].player_name])
        /\ Cardinality(PlayersAbove(leaderboard_data, rows[k].player_name)) < k
        /\ k <= Cardinality(PlayersNotBelow(leaderboard_data, rows[k].player_name))
    /\ \A k, l \in 1..Len(rows) :
        /\ k # l => rows[k].player_name # rows[l].player_name
        /\ k < l => rows[k].total_score >= rows[l].total_score

\* rank is a position of name in an ordered leaderboard, 0 if it has none
RankIn(rank, leaderboard_data, name) ==
    IF name \in DOMAIN leaderboard_data
    THEN /\ Cardinality(PlayersAbove(leaderboard_data, name)) < rank
         /\ rank <= Cardinality(PlayersNotBelow(leaderboard_data, name))
    ELSE rank = 0

\* every rank a higher scorer can get is smaller than every rank a lower
\* scorer can get
HigherScoreSmallerRank(leaderboard_data) ==
    \A p, q \in DOMAIN leaderboard_data :
        leaderboard_data[p].total_score > leaderboard_data[q].total_score =>
            \A rp \in GetPlayerRank(leaderboard_data, p),
               rq \in GetPlayerRank(leaderboard_data, q) : 0 < rp /\ rp < rq

\* what a query step returned, for the limits in given_limits taken as
\* limits and the others as no limit
QueryAnswers(given_limits) ==
    LET q == last_query'
        leaderboard_data == managers[q.instance].leaderboard_data
    IN /\ q.op = "get_leaderboard" /\ q.limit.value >= 0 =>
            OrderedRows(q.rows, leaderboard_data,
                        IF q.limit.given /\ q.limit.value \in given_limits
                        THEN q.limit.value
                        ELSE Cardinality(DOMAIN leaderboard_data))
       /\ q.op = "get_player_rank" => RankIn(q.rank, leaderboard_data, q.player_name)

C32_LeaderboardOrder ==
    /\ [](\A i \in Instances : HigherScoreSmallerRank(managers[i].leaderboard_data))
    /\ [][last_query' # last_query => QueryAnswers(0..MaxLimit)]_vars


\* The same with a limit of 0 taken as no limit, which is what `if limit:`
\* does: this holds.
C32_ExceptLimitZero ==
    /\ [](\A i \in Instances : HigherScoreSmallerRank(managers[i].leaderboard_data))
    /\ [][last_query' # last_query => QueryAnswers(1..MaxLimit)]_vars

\* get_leaderboard(limit=0) has returned the two players of the leaderboard
C32_Witness ==
    /\ last_query.op = "get_leaderboard"
    /\ last_query.limit = [given |-> TRUE, value |-> 0]
    /\ Len(last_query.rows) = 2


(***************************************************************************)
(* C33: in a multiplayer quiz every player has at most one recorded answer *)
(* per question number, and mp_scores[p] is the sum of the scores of the   *)
(* answers recorded for p.                                                 *)
(***************************************************************************)
RECURSIVE ScoreSum(_)
ScoreSum(player_answers) ==
    IF player_answers = <<>> THEN 0
    ELSE player_answers[Len(player_answers)].score
            + ScoreSum(SubSeq(player_answers, 1, Len(player_answers) - 1))

OneAnswerPerQuestion(player_answers) ==
    \A i, j \in 1..Len(player_answers) :
        i # j => player_answers[i].question_number # player_answers[j].question_number

C33_OneAnswerPerQuestion ==
    /\ \A p \in DOMAIN mp_answers : OneAnswerPerQuestion(mp_answers[p])
    /\ DOMAIN mp_scores = DOMAIN mp_answers
    /\ \A p \in DOMAIN mp_scores : mp_scores[p] = ScoreSum(mp_answers[p])

\* the player has taken the name of a player whose answer to the current
\* question is recorded, and the form is offered
C33_Witness ==
    /\ mp_active
    /\ player_name # ""
    /\ ~mp_player_answered
    /\ AlreadyAnswered(MpSession, player_name)
    /\ ~QuizOver(MpSession, now)

====
